---- MODULE Spec2Model ----
(***************************************************************************)
(* Model of the Wayback SPO analyzer (scripts/render_configured.js, the    *)
(* Python analyzer embedded from line 129 on): signature extraction and    *)
(* comparison, the resilient fetch layer, the bisection localizer and the  *)
(* per-domain analysis that drives them.                                   *)
(***************************************************************************)
EXTENDS Integers, Sequences, FiniteSets, TLC

VARIABLES
    \* --- signature extraction / comparison (build_signature_from_ads, signatures_equal)
    obsA, obsB,        \* parsed entry lists of two observations, or NoContent
    sigA, sigB,        \* their signatures (NoneSig when unknown)
    equalResult,       \* last value returned by signatures_equal
    ssp_id_rows,       \* results["ssp_id_rows"] for the two observations, by provider
    sigPc,
    \* --- one call of safe_request
    attempt,           \* the local retry counter
    requests,          \* requests.get calls issued so far
    outcomes,          \* kind of each attempt so far: "neterr", "retry_status", "final_status"
    lastSleep,         \* the last time.sleep of the call, in hundredths of a second (0: none yet)
    sleepCount,        \* number of time.sleep calls
    retValue,          \* what the call returned: "pending", "None" or "response"
    retStatus,         \* status code of the returned response (0 when none)
    lastStatus,        \* status code of the latest response received (0: none, or a network error)
    lastHeader,        \* Retry-After header of the latest response received
    reqPc,             \* "loop" while the call runs, "returned" after its return
    \* --- one call of binary_search_change
    bsObs,             \* index -> name of the body the fetch of that observation left
    bsLeft, bsRight,   \* left_idx, right_idx
    bs,                \* the locals lo, hi, sigL, sigR, iteration
    bsResult,          \* the value returned
    bsPc,              \* "enter" | "loop" | "returned"
    \* --- one call of analyze_domain
    snaps,             \* the list cdx_query returned, ascending by timestamp; each entry
                       \* also carries the body the content endpoint serves for it
    snaps_reduced,
    sampled_indices,   \* sorted, without repetition
    sig_cache,         \* (timestamp, digest) -> fetched record
    windows_to_check,
    loop_i,            \* position of the loop that is running
    events,
    snapshots_records,
    human_summary,     \* results["human_summary"]
    anaPc,             \* "sample" | "windows" | "localize" | "done"
    \* --- calls of get_sig_by_index_in_reduced within one analyze_domain call
    ftSnaps,           \* snaps_reduced: timestamp, digest and index-reported length
    ftCache,           \* sig_cache: (timestamp, digest) -> fetched record
    ftFetches,         \* (timestamp, digest) -> number of wayback_fetch calls made for it
    ftIdx,             \* idx of the latest call (-1: none yet)
    ftReturned,        \* the record the latest call returned
    ftHit,             \* the latest call found its key in the cache
    ftOutcome,         \* what the fetch of the latest call ended in (kind "" when none)
    ftPc,              \* "calls" while analyze_domain runs
    \* --- the exclusivity pass of analyze_domain
    exSnaps,           \* snaps_reduced with the body each observation's record holds
    exI,               \* i of the loop of line 811
    exEvents,          \* the potential_exclusivity events appended so far
    exPc,              \* "loop" | "done"
    \* --- runs of main
    domains,           \* read_domains(...): the list of domains of the run
    log,               \* the dict log: domain -> last_checked (NoEntry: no entry)
    stored_log,        \* the content of the log file
    loaded_log,        \* what load_log returned when the run started
    all_results,       \* the domains whose result was appended, in order
    today,             \* to_date of the run
    dom_i,             \* position of the loop over domains (1-based)
    analyzed,          \* the analyze_domain calls of the run: dom, from_date, outcome, index
    report_rows,       \* the results generate_report was given (<<"none">> before)
    prev_run,          \* how the previous run ended and which domains it completed
    mainPc,            \* "loop" | "report" | "save" | "done" | "crashed"
    \* --- the outbound requests of a run and the sleeps between them
    plDomain,          \* position of main's loop over the domains (1-based)
    plPc,              \* "primary" | "wildcard" | "fetch" | "return" | "done"
    used_subdomain_mode, \* analyze_domain's flag: the wildcard query was issued
    plRows,            \* len(snaps) after the queries of the current domain
    plToFetch,         \* cache keys of the current domain not fetched yet
    plCalls,           \* requests of the current domain: primary, wildcard, fetch counts
    plSleeps,          \* politeness sleeps executed since the last outbound request
    plLastGap,         \* politeness sleeps between the last two outbound requests
    plLastPair,        \* the kinds of the last two outbound requests
    plResult,          \* what analyze_domain returned for the current domain
    \* --- one index query and the reduction of its list
    cdxKind,           \* what safe_request gave: "failed" | "status" | "nonjson" | "short" | "rows"
    cdxRows,           \* data[1:] of the JSON answer
    cdxCap,            \* the threshold the length of the list is compared with
    cdxSnaps,          \* the list cdx_query returned
    cdxReduced,        \* snaps_reduced
    cdxPc              \* "query" | "reduce" | "done"

sigVars == <<obsA, obsB, sigA, sigB, equalResult, ssp_id_rows, sigPc>>

reqVars == <<attempt, requests, outcomes, lastSleep, sleepCount, retValue, retStatus,
            lastStatus, lastHeader, reqPc>>

bsVars == <<bsObs, bsLeft, bsRight, bs, bsResult, bsPc>>

anaVars == <<snaps, snaps_reduced, sampled_indices, sig_cache, windows_to_check,
            loop_i, events, snapshots_records, human_summary, anaPc>>

ftVars == <<ftSnaps, ftCache, ftFetches, ftIdx, ftReturned, ftHit, ftOutcome, ftPc>>

exVars == <<exSnaps, exI, exEvents, exPc>>

mainVars == <<domains, log, stored_log, loaded_log, all_results, today, dom_i, analyzed,
             report_rows, prev_run, mainPc>>

plVars == <<plDomain, plPc, used_subdomain_mode, plRows, plToFetch, plCalls, plSleeps,
           plLastGap, plLastPair, plResult>>

cdxVars == <<cdxKind, cdxRows, cdxCap, cdxSnaps, cdxReduced, cdxPc>>

vars == <<sigVars, reqVars, bsVars, anaVars, ftVars, exVars, mainVars, plVars, cdxVars>>

\* What each specification leaves alone.
otherThanSig == <<reqVars, bsVars, anaVars, ftVars, exVars, mainVars, plVars, cdxVars>>
otherThanReq == <<sigVars, bsVars, anaVars, ftVars, exVars, mainVars, plVars, cdxVars>>
otherThanBs  == <<sigVars, reqVars, anaVars, ftVars, exVars, mainVars, plVars, cdxVars>>
otherThanAna == <<sigVars, reqVars, bsVars, ftVars, exVars, mainVars, plVars, cdxVars>>
otherThanFt  == <<sigVars, reqVars, bsVars, anaVars, exVars, mainVars, plVars, cdxVars>>
otherThanEx  == <<sigVars, reqVars, bsVars, anaVars, ftVars, mainVars, plVars, cdxVars>>
otherThanMain == <<sigVars, reqVars, bsVars, anaVars, ftVars, exVars, plVars, cdxVars>>
otherThanPl == <<sigVars, reqVars, bsVars, anaVars, ftVars, exVars, mainVars, cdxVars>>
otherThanCdx == <<sigVars, reqVars, bsVars, anaVars, ftVars, exVars, mainVars, plVars>>

(***************************************************************************)
(* Bounds of the model                                                     *)
(***************************************************************************)
MaxEntries == 2

(***************************************************************************)
(* Provider catalog (SSP_DEFS) and the ads.txt entry universe              *)
(***************************************************************************)
SSP_DEFS ==
    [ google       |-> {"google.com", "doubleclick.net", "googlesyndication.com"},
      magnite      |-> {"rubiconproject.com", "magnite.com", "telaria.com", "spotx.tv", "spotxchange.com"},
      pubmatic     |-> {"pubmatic.com"},
      index        |-> {"indexexchange.com", "casalemedia.com"},
      openx        |-> {"openx.com"},
      xandr        |-> {"appnexus.com", "xandr.com"},
      triplelift   |-> {"triplelift.com"},
      sharethrough |-> {"sharethrough.com"},
      sovrn        |-> {"sovrn.com", "lijit.com"},
      adform       |-> {"adform.com"} ]

SSPs == DOMAIN SSP_DEFS

\* Entries as parse_ads_txt yields them: <<adsystem domain, seller id, relationship>>,
\* the domain and seller lower-cased, the relationship upper-cased.
EntryPool ==
    { <<"google.com", "pub-1", "DIRECT">>,
      <<"google.com", "pub-2", "DIRECT">>,
      <<"doubleclick.net", "pub-1/x", "RESELLER">>,
      <<"ads.pubmatic.com", "pub-1", "DIRECT">>,
      <<"example.com", "pub-3", "DIRECT">> }

\* `domain_token in adsys`: substring test, tabulated over the hosts of EntryPool.
HostContains(adsys, token) ==
    \/ adsys = token
    \/ <<adsys, token>> \in { <<"ads.pubmatic.com", "pubmatic.com">> }

\* rel.upper().startswith("DIRECT")
StartsWithDirect(rel) == rel \in {"DIRECT"}

\* seller.split('/')[0].strip().lower()
NormSeller(seller) == IF seller = "pub-1/x" THEN "pub-1" ELSE seller

\* What a fetch left for parsing: the parsed entries of a usable body (status 200,
\* non-empty text), or nothing.
Content(entries) == [ok |-> TRUE, entries |-> entries]
NoContent == [ok |-> FALSE, entries |-> << >>]
NoneSig == [known |-> FALSE]

EmptyIdCounts == [ssp \in SSPs |-> [direct |-> {}, reseller |-> {}]]

\* One pass of the loop body of build_signature_from_ads for one entry.
AddEntry(id_counts, e) ==
    [ssp \in SSPs |->
        IF \E tok \in SSP_DEFS[ssp] : HostContains(e[1], tok)
        THEN IF StartsWithDirect(e[3])
             THEN [id_counts[ssp] EXCEPT !.direct = @ \cup {NormSeller(e[2])}]
             ELSE [id_counts[ssp] EXCEPT !.reseller = @ \cup {NormSeller(e[2])}]
        ELSE id_counts[ssp]]

RECURSIVE IdCounts(_, _)
IdCounts(entries, n) ==
    IF n = 0 THEN EmptyIdCounts
    ELSE AddEntry(IdCounts(entries, n - 1), entries[n])

\* Mutant of build_signature_from_ads: the ID counts are counts of matching lines,
\* not of unique IDs.
RECURSIVE LineCount(_, _, _, _)
LineCount(entries, n, ssp, direct) ==
    IF n = 0 THEN 0
    ELSE LineCount(entries, n - 1, ssp, direct)
         + (IF /\ \E tok \in SSP_DEFS[ssp] : HostContains(entries[n][1], tok)
               /\ StartsWithDirect(entries[n][3]) = direct
            THEN 1 ELSE 0)

build_signature_lines(entries) ==
    LET ids == IdCounts(entries, Len(entries)) IN
    [ known           |-> TRUE,
      ads             |-> [ssp \in SSPs |->
                              Cardinality(ids[ssp].direct) + Cardinality(ids[ssp].reseller) > 0],
      ids_direct      |-> [ssp \in SSPs |-> LineCount(entries, Len(entries), ssp, TRUE)],
      ids_reseller    |-> [ssp \in SSPs |-> LineCount(entries, Len(entries), ssp, FALSE)],
      list_direct     |-> [ssp \in SSPs |-> ids[ssp].direct],
      list_reseller   |-> [ssp \in SSPs |-> ids[ssp].reseller],
      total_lines_ads |-> Len(entries) ]

build_signature_from_ads(entries) ==
    LET ids == IdCounts(entries, Len(entries)) IN
    [ known           |-> TRUE,
      ads             |-> [ssp \in SSPs |->
                              Cardinality(ids[ssp].direct) + Cardinality(ids[ssp].reseller) > 0],
      ids_direct      |-> [ssp \in SSPs |-> Cardinality(ids[ssp].direct)],
      ids_reseller    |-> [ssp \in SSPs |-> Cardinality(ids[ssp].reseller)],
      list_direct     |-> [ssp \in SSPs |-> ids[ssp].direct],
      list_reseller   |-> [ssp \in SSPs |-> ids[ssp].reseller],
      total_lines_ads |-> Len(entries) ]

\* Mutant of signatures_equal: two unknown signatures compare equal.
signatures_equal_none_eq(a, b, consider_ids) ==
    IF ~a.known \/ ~b.known THEN a = b
    ELSE \A ssp \in SSPs :
            /\ a.ads[ssp] = b.ads[ssp]
            /\ consider_ids => /\ a.ids_direct[ssp] = b.ids_direct[ssp]
                               /\ a.ids_reseller[ssp] = b.ids_reseller[ssp]

signatures_equal(a, b, consider_ids) ==
    IF ~a.known \/ ~b.known THEN FALSE
    ELSE \A ssp \in SSPs :
            /\ a.ads[ssp] = b.ads[ssp]
            /\ consider_ids => /\ a.ids_direct[ssp] = b.ids_direct[ssp]
                               /\ a.ids_reseller[ssp] = b.ids_reseller[ssp]

(***************************************************************************)
(* Specification SpecSig: two observations are turned into signatures and  *)
(* compared.                                                               *)
(***************************************************************************)
SeqsUpTo(S, n) == UNION { [1..k -> S] : k \in 0..n }

EntryLists == SeqsUpTo(EntryPool, MaxEntries)

\* get_sig_by_index_in_reduced, the signature part: a usable content is parsed and
\* signed, anything else gives signature None.
SignatureOf(obs) ==
    IF ~obs.ok THEN NoneSig ELSE build_signature_from_ads(obs.entries)

SigIdle ==
    /\ obsA = NoContent /\ obsB = NoContent
    /\ sigA = NoneSig /\ sigB = NoneSig
    /\ equalResult = FALSE
    /\ ssp_id_rows = << >>
    /\ sigPc = "idle"

ReqIdle ==
    /\ attempt = 0 /\ requests = 0 /\ outcomes = << >>
    /\ lastSleep = 0 /\ sleepCount = 0
    /\ retValue = "pending" /\ retStatus = 0 /\ lastStatus = 0
    /\ lastHeader = [kind |-> "absent", value |-> 0]
    /\ reqPc = "idle"

NoneRes == [found |-> FALSE, lo |-> 0, hi |-> 0]
NoLocals == [lo |-> 0, hi |-> 0, sigL |-> NoneSig, sigR |-> NoneSig, iteration |-> 0,
             max_iterations |-> 0]

BsIdle ==
    /\ bsObs = << >> /\ bsLeft = 0 /\ bsRight = 0
    /\ bs = NoLocals /\ bsResult = NoneRes
    /\ bsPc = "idle"

AnaIdle ==
    /\ snaps = << >> /\ snaps_reduced = << >>
    /\ sampled_indices = << >> /\ sig_cache = << >> /\ windows_to_check = << >>
    /\ loop_i = 0 /\ events = << >> /\ snapshots_records = << >> /\ human_summary = << >>
    /\ anaPc = "idle"

\* No call of get_sig_by_index_in_reduced made.
NoRecord == [known |-> FALSE, entries |-> << >>, suspect |-> FALSE, raw |-> "None",
             length |-> 0, digest |-> "", timestamp |-> 0]

FtIdle ==
    /\ ftSnaps = << >> /\ ftCache = << >> /\ ftFetches = << >>
    /\ ftIdx = -1 /\ ftReturned = NoRecord /\ ftHit = FALSE
    /\ ftOutcome = [kind |-> "", status |-> 0, text |-> ""]
    /\ ftPc = "idle"

ExIdle == exSnaps = << >> /\ exI = 0 /\ exEvents = << >> /\ exPc = "idle"

NoRun == [ended |-> "none", completed |-> {}, today |-> 0]

MainIdle ==
    /\ domains = << >> /\ log = << >> /\ stored_log = << >> /\ loaded_log = << >>
    /\ all_results = << >> /\ today = 0 /\ dom_i = 0 /\ analyzed = << >>
    /\ report_rows = << >> /\ prev_run = NoRun
    /\ mainPc = "idle"

NoCalls == [primary |-> 0, primary_rows |-> 0, wildcard |-> 0, fetch |-> 0]

NoResult == [returned |-> "no", events |-> << >>, fetched |-> 0]

PlIdle ==
    /\ plDomain = 0 /\ plPc = "idle" /\ used_subdomain_mode = FALSE /\ plRows = 0
    /\ plToFetch = 0 /\ plCalls = NoCalls /\ plSleeps = 0 /\ plLastGap = 0
    /\ plLastPair = <<"none", "none">> /\ plResult = NoResult

CdxIdle ==
    /\ cdxKind = "idle" /\ cdxRows = << >> /\ cdxCap = 0 /\ cdxSnaps = << >>
    /\ cdxReduced = << >> /\ cdxPc = "idle"

\* Lines 868-873: the IDs a signature lists for a provider and a role (none
\* for an unknown signature).
ListedIds(sig, ssp, role) ==
    IF ~sig.known THEN {}
    ELSE IF role = "direct" THEN sig.list_direct[ssp] ELSE sig.list_reseller[ssp]

\* Lines 864-893: ssp_agg, the IDs of every snapshot by provider and role.
SspAgg(sigs) ==
    [ssp \in SSPs |->
        [direct   |-> UNION {ListedIds(sigs[i], ssp, "direct") : i \in 1..Len(sigs)},
         reseller |-> UNION {ListedIds(sigs[i], ssp, "reseller") : i \in 1..Len(sigs)}]]

\* last_seen_map: the position of the last snapshot that lists an ID of the
\* provider (0: None).
LastSeen(sigs, ssp) ==
    LET seen == {i \in 1..Len(sigs) :
                    ListedIds(sigs[i], ssp, "direct") \cup ListedIds(sigs[i], ssp, "reseller") # {}}
    IN  IF seen = {} THEN 0 ELSE CHOOSE i \in seen : \A j \in seen : j <= i

\* Line 899: total_unique = len(dir_ids) + len(res_ids).
TotalUnique(dir_ids, res_ids) == Cardinality(dir_ids) + Cardinality(res_ids)

\* Lines 895-910: one row per provider.
SspIdRows(sigs) ==
    [ssp \in SSPs |->
        LET dir_ids == SspAgg(sigs)[ssp].direct
            res_ids == SspAgg(sigs)[ssp].reseller
        IN  [ total_unique_ids   |-> TotalUnique(dir_ids, res_ids),
              ids_direct_count   |-> Cardinality(dir_ids),
              ids_reseller_count |-> Cardinality(res_ids),
              ids_direct_list    |-> dir_ids,
              ids_reseller_list  |-> res_ids,
              last_seen_ts       |-> LastSeen(sigs, ssp) ]]

InitSig ==
    /\ ReqIdle
    /\ BsIdle
    /\ AnaIdle
    /\ FtIdle
    /\ ExIdle
    /\ MainIdle
    /\ PlIdle
    /\ CdxIdle
    /\ obsA \in {Content(es) : es \in EntryLists} \cup {NoContent}
    /\ obsB \in {Content(es) : es \in EntryLists} \cup {NoContent}
    /\ sigA = NoneSig
    /\ sigB = NoneSig
    /\ equalResult = FALSE
    /\ ssp_id_rows = << >>
    /\ sigPc = "fetched"

BuildSignatures ==
    /\ sigPc = "fetched"
    /\ sigA' = SignatureOf(obsA)
    /\ sigB' = SignatureOf(obsB)
    /\ sigPc' = "built"
    /\ UNCHANGED <<obsA, obsB, equalResult, ssp_id_rows, otherThanSig>>

CompareWithIds ==
    /\ sigPc = "built"
    /\ equalResult' = signatures_equal(sigA, sigB, TRUE)
    /\ sigPc' = "compared_ids"
    /\ UNCHANGED <<obsA, obsB, sigA, sigB, ssp_id_rows, otherThanSig>>

ComparePresenceOnly ==
    /\ sigPc = "built"
    /\ equalResult' = signatures_equal(sigA, sigB, FALSE)
    /\ sigPc' = "compared_presence"
    /\ UNCHANGED <<obsA, obsB, sigA, sigB, ssp_id_rows, otherThanSig>>

\* Lines 864-910: the participant-ID rollup rows of a result whose
\* observations have the signatures sigA and sigB, in that order.
BuildSspIdRows ==
    /\ sigPc = "built"
    /\ ssp_id_rows' = SspIdRows(<<sigA, sigB>>)
    /\ sigPc' = "rows"
    /\ UNCHANGED <<obsA, obsB, sigA, sigB, equalResult, otherThanSig>>

NextSig == BuildSignatures \/ CompareWithIds \/ ComparePresenceOnly \/ BuildSspIdRows

SpecSig == InitSig /\ [][NextSig]_vars

Range(seq) == { seq[i] : i \in 1..Len(seq) }

Compared == sigPc \in {"compared_ids", "compared_presence"}

\* C6: signatures_equal returns false whenever either argument is the unknown
\* signature (None), also when both are unknown, with or without ID comparison.
C6_UnknownNeverEqual ==
    (Compared /\ (~sigA.known \/ ~sigB.known)) => equalResult = FALSE

\* A comparison of two unknown signatures has been made.
C6_Witness ==
    sigPc = "compared_ids" /\ ~sigA.known /\ ~sigB.known /\ equalResult = FALSE

\* C7: two observations with the same set of parsed entries give signatures that
\* signatures_equal reports equal, whatever the order and repetition of the entries.
C7_EntryOrderIrrelevant ==
    (/\ Compared
     /\ obsA.ok /\ obsB.ok
     /\ Range(obsA.entries) = Range(obsB.entries)) => equalResult = TRUE

\* Two different entry lists over the same two catalog entries were compared with IDs.
C7_Witness ==
    /\ sigPc = "compared_ids"
    /\ obsA.ok /\ obsB.ok
    /\ obsA.entries # obsB.entries
    /\ Range(obsA.entries) = Range(obsB.entries)
    /\ Cardinality(Range(obsA.entries)) = 2
    /\ sigA.ads["google"]
    /\ equalResult = TRUE

\* C8 as stated: with ID comparison, signatures_equal is true for two known
\* signatures only if every provider has equal presence flags, equal direct ID sets
\* and equal reseller ID sets.
C8_EqualImpliesSameIdSets ==
    (/\ sigPc = "compared_ids"
     /\ sigA.known /\ sigB.known
     /\ equalResult = TRUE)
    => \A ssp \in SSPs :
          /\ sigA.ads[ssp] = sigB.ads[ssp]
          /\ sigA.list_direct[ssp] = sigB.list_direct[ssp]
          /\ sigA.list_reseller[ssp] = sigB.list_reseller[ssp]

(***************************************************************************)
(* Resilient fetch layer: safe_request. Times are in hundredths of a second. *)
(***************************************************************************)
MAX_RETRIES == 5
BACKOFF_FACTOR == 100
BACKOFF_MAX == 6000

\* Mutant of the retry set: 404 is retried too.
RETRY_STATUS_CODES_and_404 == {404, 429, 500, 502, 503, 504}

RETRY_STATUS_CODES == {429, 500, 502, 503, 504}

\* Status codes a response may carry, and the jitter random.uniform(0, 1.0) may draw.
StatusCodes == RETRY_STATUS_CODES \cup {200, 301, 404}
Jitters == {0, 50, 100}

\* The Retry-After header of a response: absent, integer seconds (value: seconds), an
\* HTTP date (value: hundredths of a second from utcnow() to that date) or text that
\* is neither.
NoHeader == [kind |-> "absent", value |-> 0]

RetryAfterHeaders ==
    { NoHeader,
      [kind |-> "seconds", value |-> 0],
      [kind |-> "seconds", value |-> 2],
      [kind |-> "seconds", value |-> 120],
      [kind |-> "date", value |-> 3000],
      [kind |-> "date", value |-> 5],
      [kind |-> "date", value |-> -3000],
      [kind |-> "garbage", value |-> 0] }

Min(a, b) == IF a < b THEN a ELSE b
Max(a, b) == IF a > b THEN a ELSE b

RECURSIVE Pow2(_)
Pow2(n) == IF n = 0 THEN 1 ELSE 2 * Pow2(n - 1)

_compute_backoff(att, jitter) == Min(BACKOFF_MAX, BACKOFF_FACTOR * Pow2(att) + jitter)

\* Mutant of the wait: the header is not read.
RetryWait_backoff_only(header, att, jitter) == _compute_backoff(att, jitter)

\* Lines 292-307: the wait a retryable response asks for.
RetryWait(header, att, jitter) ==
    CASE header.kind = "seconds" -> 100 * header.value
      [] header.kind = "date"    -> IF header.value < 0
                                    THEN _compute_backoff(att, jitter)
                                    ELSE header.value
      [] OTHER                   -> _compute_backoff(att, jitter)

\* Line 313: time.sleep(max(0.1, wait)).
SleepFloor == 10

\* Mutant of the give-up test: network errors are not charged to the budget that
\* retryable statuses use (the test looks only at the network errors so far).
NetBudgetExhaustedOwn(att) ==
    Cardinality({i \in 1..Len(outcomes) : outcomes[i] = "neterr"}) + 1 > MAX_RETRIES

\* Line 280, after attempt += 1.
NetBudgetExhausted(att) == att > MAX_RETRIES

\* Mutant of the value returned on exhaustion after a retryable status.
ExhaustedStatusReturnNone(status) == [value |-> "None", status |-> 0]

\* Line 311: the final response is returned.
ExhaustedStatusReturn(status) == [value |-> "response", status |-> status]

\* Lines 276-286: requests.get raises.
AttemptNetworkError ==
    /\ reqPc = "loop"
    /\ requests' = requests + 1
    /\ outcomes' = Append(outcomes, "neterr")
    /\ lastStatus' = 0
    /\ lastHeader' = NoHeader
    /\ attempt' = attempt + 1
    /\ IF NetBudgetExhausted(attempt + 1)
       THEN /\ retValue' = "None"
            /\ reqPc' = "returned"
            /\ UNCHANGED <<lastSleep, sleepCount, retStatus>>
       ELSE /\ \E jitter \in Jitters :
                 lastSleep' = _compute_backoff((attempt + 1) - 1, jitter)
            /\ sleepCount' = sleepCount + 1
            /\ UNCHANGED <<retValue, retStatus, reqPc>>
    /\ UNCHANGED otherThanReq

\* Lines 289-314: a response with a status of RETRY_STATUS_CODES.
AttemptRetryableStatus ==
    /\ reqPc = "loop"
    /\ \E status \in RETRY_STATUS_CODES, header \in RetryAfterHeaders, jitter \in Jitters :
         LET wait == RetryWait(header, attempt, jitter) IN
         /\ requests' = requests + 1
         /\ outcomes' = Append(outcomes, "retry_status")
         /\ lastStatus' = status
         /\ lastHeader' = header
         /\ attempt' = attempt + 1
         /\ IF attempt + 1 > MAX_RETRIES
            THEN /\ retValue' = ExhaustedStatusReturn(status).value
                 /\ retStatus' = ExhaustedStatusReturn(status).status
                 /\ reqPc' = "returned"
                 /\ UNCHANGED <<lastSleep, sleepCount>>
            ELSE /\ lastSleep' = Max(SleepFloor, wait)
                 /\ sleepCount' = sleepCount + 1
                 /\ UNCHANGED <<retValue, retStatus, reqPc>>
    /\ UNCHANGED otherThanReq

\* Lines 316-317: any other status is returned at once.
AttemptFinalStatus ==
    /\ reqPc = "loop"
    /\ \E status \in StatusCodes \ RETRY_STATUS_CODES :
         /\ requests' = requests + 1
         /\ outcomes' = Append(outcomes, "final_status")
         /\ lastStatus' = status
         /\ lastHeader' = NoHeader
         /\ retValue' = "response"
         /\ retStatus' = status
         /\ reqPc' = "returned"
    /\ UNCHANGED <<attempt, lastSleep, sleepCount>>
    /\ UNCHANGED otherThanReq

InitReq ==
    /\ SigIdle
    /\ BsIdle
    /\ AnaIdle
    /\ FtIdle
    /\ ExIdle
    /\ MainIdle
    /\ PlIdle
    /\ CdxIdle
    /\ attempt = 0 /\ requests = 0 /\ outcomes = << >>
    /\ lastSleep = 0 /\ sleepCount = 0
    /\ retValue = "pending" /\ retStatus = 0 /\ lastStatus = 0
    /\ lastHeader = NoHeader
    /\ reqPc = "loop"

NextReq == AttemptNetworkError \/ AttemptRetryableStatus \/ AttemptFinalStatus

SpecReq == InitReq /\ [][NextReq]_vars

Failures == { i \in 1..Len(outcomes) : outcomes[i] \in {"neterr", "retry_status"} }

\* C9: one call of safe_request issues at most max_retries + 1 requests and has
\* returned once it issued that many; network failures and retryable statuses are
\* charged to the same counter.
C9_BoundedRequests ==
    /\ requests <= MAX_RETRIES + 1
    /\ requests = MAX_RETRIES + 1 => reqPc = "returned"
    /\ attempt = Cardinality(Failures)

\* The call gave up after max_retries + 1 requests that mixed both kinds of failure.
C9_Witness ==
    /\ reqPc = "returned"
    /\ requests = MAX_RETRIES + 1
    /\ \E i, j \in 1..Len(outcomes) : outcomes[i] = "neterr" /\ outcomes[j] = "retry_status"

BudgetExhausted == reqPc = "returned" /\ attempt > MAX_RETRIES

SleptAfterRetryable ==
    /\ reqPc = "loop" /\ outcomes # << >>
    /\ outcomes[Len(outcomes)] = "retry_status"

\* The Retry-After wait of the latest response, in hundredths of a second.
UsableRetryAfter ==
    \/ lastHeader.kind = "seconds" /\ lastHeader.value > 0
    \/ lastHeader.kind = "date" /\ lastHeader.value > 0

RetryAfterWait ==
    IF lastHeader.kind = "seconds" THEN 100 * lastHeader.value ELSE lastHeader.value

\* C12 as stated: after a retryable response with a usable Retry-After (positive
\* integer seconds, or an HTTP date in the future) the sleep before the next attempt
\* is that value.
C12_RetryAfterHonored ==
    (SleptAfterRetryable /\ UsableRetryAfter) => lastSleep = RetryAfterWait

\* C12, amended: the sleep is that value, or a tenth of a second when the value is
\* smaller than that; it does not depend on the attempt number or the jitter.
C12_RetryAfterHonoredWithFloor ==
    (SleptAfterRetryable /\ UsableRetryAfter) =>
        lastSleep = (IF RetryAfterWait < 10 THEN 10 ELSE RetryAfterWait)

\* A fourth attempt is preceded by a sleep of the 120 seconds the header asked for,
\* above BACKOFF_MAX.
C12_Witness ==
    /\ SleptAfterRetryable
    /\ attempt = 3
    /\ lastHeader = [kind |-> "seconds", value |-> 120]
    /\ lastSleep = 12000

(***************************************************************************)
(* Change-point localizer: binary_search_change                            *)
(***************************************************************************)
MAX_ITERATIONS == 30

ProbeOffsets_far_first == <<-2, 2, -1, 1>>

\* The probe offsets of line 613, in order.
ProbeOffsets == <<-1, 1, -2, 2>>

\* Lines 613-620: the first probe position strictly between lo and hi whose signature
\* is known; 0 when there is none (`moved` stays False).
RECURSIVE FirstKnownProbe(_, _, _, _, _)
FirstKnownProbe(getsig, mid, lo, hi, p) ==
    IF p > Len(ProbeOffsets) THEN 0
    ELSE LET nmid == mid + ProbeOffsets[p] IN
         IF nmid > lo /\ nmid < hi /\ getsig[nmid].known
         THEN p
         ELSE FirstKnownProbe(getsig, mid, lo, hi, p + 1)

\* Mutant of the narrowing step: the halves are swapped.
Narrow_swapped(st, mid, sigM) ==
    IF signatures_equal(st.sigL, sigM, TRUE)
    THEN [st EXCEPT !.hi = mid, !.sigR = sigM, !.iteration = @ + 1]
    ELSE [st EXCEPT !.lo = mid, !.sigL = sigM, !.iteration = @ + 1]

\* Lines 623-629.
Narrow(st, mid, sigM) ==
    IF signatures_equal(st.sigL, sigM, TRUE)
    THEN [st EXCEPT !.lo = mid, !.sigL = sigM, !.iteration = @ + 1]
    ELSE [st EXCEPT !.hi = mid, !.sigR = sigM, !.iteration = @ + 1]

\* Lines 609-622: the midpoint the iteration settles on, 0 offset index when the
\* midpoint itself is known; `usable` is false when the loop breaks.
MidChoice(getsig, st) ==
    LET mid == (st.lo + st.hi) \div 2 IN
    IF getsig[mid].known THEN [usable |-> TRUE, mid |-> mid]
    ELSE LET p == FirstKnownProbe(getsig, mid, st.lo, st.hi, 1) IN
         IF p = 0 THEN [usable |-> FALSE, mid |-> mid]
         ELSE [usable |-> TRUE, mid |-> mid + ProbeOffsets[p]]

\* Mutant of the loop condition: the loop stops one step early.
LoopCondition_wide(st) == (st.hi - st.lo) > 2 /\ st.iteration < st.max_iterations

\* Mutant of the loop condition: the iterations are not counted.
LoopCondition_unbounded(st) == (st.hi - st.lo) > 1

\* Line 608.
LoopCondition(st) == (st.hi - st.lo) > 1 /\ st.iteration < st.max_iterations

\* One pass of the loop body (lines 609-629) from locals st.
LoopBody(getsig, st) ==
    LET c == MidChoice(getsig, st) IN Narrow(st, c.mid, getsig[c.mid])

\* Lines 608-630: the loop run to its end.
RECURSIVE RunLoop(_, _)
RunLoop(getsig, st) ==
    IF LoopCondition(st) /\ MidChoice(getsig, st).usable
    THEN RunLoop(getsig, LoopBody(getsig, st))
    ELSE st

ReturnsNoneAtOnce_index_only(getsig, left_idx, right_idx) == left_idx >= right_idx

\* Lines 599-604: the calls that return None at once.
ReturnsNoneAtOnce(getsig, left_idx, right_idx) ==
    \/ left_idx >= right_idx
    \/ signatures_equal(getsig[left_idx], getsig[right_idx], TRUE)

\* Lines 605-607, with the parameter max_iterations at its default.
EnterLocals(getsig, left_idx, right_idx) ==
    [lo |-> left_idx, hi |-> right_idx,
     sigL |-> getsig[left_idx], sigR |-> getsig[right_idx], iteration |-> 0,
     max_iterations |-> MAX_ITERATIONS]

\* The whole function, as analyze_domain calls it.
binary_search_change(getsig, left_idx, right_idx) ==
    IF ReturnsNoneAtOnce(getsig, left_idx, right_idx) THEN NoneRes
    ELSE LET st == RunLoop(getsig, EnterLocals(getsig, left_idx, right_idx)) IN
         [found |-> TRUE, lo |-> st.lo, hi |-> st.hi]

(***************************************************************************)
(* Specification SpecBisect: one call of binary_search_change, one loop     *)
(* iteration per step, over every short list of observations.               *)
(***************************************************************************)
MaxBisLen == 7

\* The values of the parameter max_iterations: its default and one the lists
\* of the model can exhaust.
IterationBounds == {1, MAX_ITERATIONS}

\* Bodies an observation may have: two providers ("AB"), either of them only ("A",
\* "B"), the first under another seller ID ("A2") or with a second seller ID ("W");
\* any other name stands for a fetch that left nothing usable.
BodyAB == Content(<< <<"google.com", "pub-1", "DIRECT">>, <<"ads.pubmatic.com", "pub-1", "DIRECT">> >>)
BodyA  == Content(<< <<"google.com", "pub-1", "DIRECT">> >>)
BodyA2 == Content(<< <<"google.com", "pub-2", "DIRECT">> >>)
BodyB  == Content(<< <<"ads.pubmatic.com", "pub-1", "DIRECT">> >>)
BodyW  == Content(<< <<"google.com", "pub-1", "DIRECT">>, <<"google.com", "pub-2", "DIRECT">> >>)

\* The signature lines 710-719 give each body (evaluated once per body).
SigOfAB   == SignatureOf(BodyAB)
SigOfA    == SignatureOf(BodyA)
SigOfA2   == SignatureOf(BodyA2)
SigOfW    == SignatureOf(BodyW)
SigOfB    == SignatureOf(BodyB)
SigOfFail == SignatureOf(NoContent)

FetchedSignature(name) ==
    CASE name = "AB" -> SigOfAB
      [] name = "A"  -> SigOfA
      [] name = "A2" -> SigOfA2
      [] name = "W"  -> SigOfW
      [] name = "B"  -> SigOfB
      [] OTHER       -> SigOfFail

BisBodies == {"AB", "A", "A2", "fail"}

\* get_signature_fn of the call: index -> signature.
BsGetSig == [i \in DOMAIN bsObs |-> FetchedSignature(bsObs[i])]

InitBisect ==
    /\ SigIdle
    /\ ReqIdle
    /\ AnaIdle
    /\ FtIdle
    /\ ExIdle
    /\ MainIdle
    /\ PlIdle
    /\ CdxIdle
    /\ \E n \in 1..MaxBisLen :
         /\ bsObs \in [0..(n - 1) -> BisBodies]
         /\ bsRight = n - 1
         /\ bsLeft \in {0, 1} \cap (0..(n - 1))
    /\ bs = NoLocals
    /\ bsResult = NoneRes
    /\ bsPc = "enter"

\* Lines 599-607.
BsEnter ==
    /\ bsPc = "enter"
    /\ IF ReturnsNoneAtOnce(BsGetSig, bsLeft, bsRight)
       THEN /\ bsResult' = NoneRes
            /\ bsPc' = "returned"
            /\ UNCHANGED bs
       ELSE /\ \E mi \in IterationBounds :
                  bs' = [EnterLocals(BsGetSig, bsLeft, bsRight) EXCEPT !.max_iterations = mi]
            /\ bsPc' = "loop"
            /\ UNCHANGED bsResult
    /\ UNCHANGED <<bsObs, bsLeft, bsRight, otherThanBs>>

\* Lines 608-629: one iteration that does not break.
BsIterate ==
    /\ bsPc = "loop"
    /\ LoopCondition(bs)
    /\ MidChoice(BsGetSig, bs).usable
    /\ bs' = LoopBody(BsGetSig, bs)
    /\ UNCHANGED <<bsObs, bsLeft, bsRight, bsResult, bsPc, otherThanBs>>

\* Line 630, reached when the loop condition fails or on the break of line 622.
BsReturn ==
    /\ bsPc = "loop"
    /\ ~(LoopCondition(bs) /\ MidChoice(BsGetSig, bs).usable)
    /\ bsResult' = [found |-> TRUE, lo |-> bs.lo, hi |-> bs.hi]
    /\ bsPc' = "returned"
    /\ UNCHANGED <<bsObs, bsLeft, bsRight, bs, otherThanBs>>

NextBisect == BsEnter \/ BsIterate \/ BsReturn

SpecBisect == InitBisect /\ [][NextBisect]_vars

\* The call runs on: a step that can be taken is taken.
SpecBisectFair == SpecBisect /\ WF_vars(NextBisect)

\* The signature as the equality rule reads it: presence flags and unique-ID counts
\* per provider and role (the lists are carried for the exports only).
SameSignature(a, b) ==
    /\ a.known /\ b.known
    /\ a.ads = b.ads
    /\ a.ids_direct = b.ids_direct
    /\ a.ids_reseller = b.ids_reseller

BsAllKnown == \A i \in DOMAIN bsObs : BsGetSig[i].known

\* The signature changes between k and k+1 and nowhere else in the list.
BsSingleBoundary(k) ==
    /\ bsLeft <= k /\ k < bsRight
    /\ ~SameSignature(BsGetSig[k], BsGetSig[k + 1])
    /\ \A i \in DOMAIN bsObs :
          IF i <= k THEN SameSignature(BsGetSig[i], BsGetSig[k])
                    ELSE SameSignature(BsGetSig[i], BsGetSig[k + 1])

\* C1: when every signature is known and the signature changes at exactly one
\* boundary k|k+1 with left <= k < right, binary_search_change returns (k, k+1),
\* for every list length and every k (max_iterations at its default).
C1_BisectionConverges ==
    (bsPc = "returned" /\ BsAllKnown /\ bs.max_iterations = MAX_ITERATIONS) =>
        \A k \in DOMAIN bsObs :
            BsSingleBoundary(k) => bsResult = [found |-> TRUE, lo |-> k, hi |-> k + 1]

\* A list of the greatest length, bisected in at least two iterations down to a
\* boundary that is not next to either end.
C1_Witness ==
    /\ bsPc = "returned" /\ BsAllKnown
    /\ bs.max_iterations = MAX_ITERATIONS
    /\ bsRight = MaxBisLen - 1
    /\ bs.iteration >= 2
    /\ \E k \in DOMAIN bsObs :
          /\ BsSingleBoundary(k)
          /\ k > bsLeft + 1 /\ k + 1 < bsRight
          /\ bsResult = [found |-> TRUE, lo |-> k, hi |-> k + 1]

(***************************************************************************)
(* Snapshot utilities: timestamps, sampling                                 *)
(*                                                                         *)
(* A timestamp "YYYYMMDDhhmmss" is the number YYYYDDDT: year, day of the    *)
(* year, capture of the day; the string order is the number order.          *)
(***************************************************************************)
SNAPSHOTS_PER_YEAR == 2
MAX_SNAPSHOT_FETCH == 1200

YearOf(ts) == ts \div 10000          \* s.timestamp[:4]
DayOf(ts)  == ts \div 10             \* s.timestamp[:8], also strftime("%Y-%m-%d")

Front(seq) == SubSeq(seq, 1, Len(seq) - 1)
Last(seq)  == seq[Len(seq)]

SetMin(S) == CHOOSE x \in S : \A y \in S : x <= y
SetMax(S) == CHOOSE x \in S : \A y \in S : x >= y

\* sorted(..., key=lambda x: x.timestamp): stable.
RECURSIVE InsertByTs(_, _)
InsertByTs(sorted, x) ==
    IF sorted = << >> \/ x.timestamp >= Last(sorted).timestamp
    THEN Append(sorted, x)
    ELSE Append(InsertByTs(Front(sorted), x), Last(sorted))

RECURSIVE SortByTs(_)
SortByTs(seq) ==
    IF seq = << >> THEN << >> ELSE InsertByTs(SortByTs(Front(seq)), Last(seq))

\* sorted(set(...)) of integers.
RECURSIVE SortedSeqOf(_)
SortedSeqOf(S) ==
    IF S = {} THEN << >> ELSE <<SetMin(S)>> \o SortedSeqOf(S \ {SetMin(S)})

\* int(round(num / den)) for num >= 0, den > 0: Python rounds halves to even.
PyRound(num, den) ==
    LET q == num \div den
        r == num % den
    IN  IF 2 * r < den THEN q
        ELSE IF 2 * r > den THEN q + 1
        ELSE IF q % 2 = 0 THEN q ELSE q + 1

reduce_snapshots_to_daily_first(list) ==
    LET days == { DayOf(list[i].timestamp) : i \in 1..Len(list) }
        keep == { SetMin({ i \in 1..Len(list) : DayOf(list[i].timestamp) = d }) : d \in days }
        idxs == SortedSeqOf(keep)
    IN  SortByTs([k \in 1..Len(idxs) |-> list[idxs[k]]])

\* Lines 517-523: the last snapshot listed for each day, by timestamp.
reduce_snapshots_to_daily(list) ==
    LET days == { DayOf(list[i].timestamp) : i \in 1..Len(list) }
        keep == { SetMax({ i \in 1..Len(list) : DayOf(list[i].timestamp) = d }) : d \in days }
        idxs == SortedSeqOf(keep)
    IN  SortByTs([k \in 1..Len(idxs) |-> list[idxs[k]]])

\* Lines 534-540: the picks of one year.
SampleYear(arr, per_year) ==
    IF Len(arr) <= per_year THEN arr
    ELSE [i \in 1..per_year |->
            arr[PyRound((i - 1) * (Len(arr) - 1), Max(1, per_year - 1)) + 1]]

RECURSIVE SampleYears(_, _, _)
SampleYears(list, years, per_year) ==
    IF years = {} THEN << >>
    ELSE LET y == SetMin(years)
             InYear(x) == YearOf(x.timestamp) = y
         IN  SampleYear(SelectSeq(list, InYear), per_year)
                \o SampleYears(list, years \ {y}, per_year)

\* Lines 541-548: first occurrence of each (timestamp, digest) kept.
RECURSIVE UniqueByKey(_, _)
UniqueByKey(seq, seen) ==
    IF seq = << >> THEN << >>
    ELSE LET key == <<Head(seq).timestamp, Head(seq).digest>> IN
         IF key \in seen THEN UniqueByKey(Tail(seq), seen)
         ELSE <<Head(seq)>> \o UniqueByKey(Tail(seq), seen \cup {key})

evenly_sample_by_year(list, per_year) ==
    IF list = << >> THEN << >>
    ELSE UniqueByKey(
            SortByTs(SampleYears(list, { YearOf(list[i].timestamp) : i \in 1..Len(list) },
                                 per_year)),
            {})

\* The Snapshot namedtuple of a listed capture (the fields the model keeps).
Snapshot(c) == [timestamp |-> c.timestamp, digest |-> c.digest]

\* `s in sampled`: equality of Snapshot tuples.
InList(c, seq) == \E k \in 1..Len(seq) : Snapshot(seq[k]) = Snapshot(c)

\* Lines 690-694.
WithEndpoints(sampled, reduced) ==
    IF reduced = << >> THEN sampled
    ELSE LET first == IF InList(reduced[1], sampled)
                      THEN sampled ELSE <<reduced[1]>> \o sampled
         IN  IF InList(Last(reduced), first) THEN first ELSE Append(first, Last(reduced))

\* Lines 725-730: indices are 0-based; a timestamp maps to the last index carrying it.
SampledIndices(sampled, reduced) ==
    LET timestamps_to_index(ts) ==
            SetMax({ i \in 1..Len(reduced) : reduced[i].timestamp = ts }) - 1
    IN  SortedSeqOf({ timestamps_to_index(sampled[k].timestamp) : k \in 1..Len(sampled) })

(***************************************************************************)
(* analyze_domain: signature cache, candidate windows, localized events     *)
(***************************************************************************)
SSP_ORDER == <<"google", "magnite", "pubmatic", "index", "openx", "xandr",
               "triplelift", "sharethrough", "sovrn", "adform">>

\* The captures the index may list at one timestamp: digest and served body. The
\* last one has the digest of "A" and a fetch that fails.
CaptureKinds ==
    { [digest |-> "dAB", body |-> "AB"],
      [digest |-> "dA",  body |-> "A"],
      [digest |-> "dB",  body |-> "B"],
      [digest |-> "dW",  body |-> "W"],
      [digest |-> "dA",  body |-> "fail"] }

CacheKey(c) == <<c.timestamp, c.digest>>

\* Lines 700-723 for index idx (0-based) of the reduced list: the cache afterwards.
\* The record keeps the body; its signature is SignatureOf of it.
get_sig_by_index_in_reduced(cache, reduced, idx) ==
    LET c == reduced[idx + 1] IN
    IF CacheKey(c) \in DOMAIN cache THEN cache
    ELSE (CacheKey(c) :> [body |-> c.body, timestamp |-> c.timestamp]) @@ cache

CachedSignature(cache, reduced, idx) ==
    FetchedSignature(cache[CacheKey(reduced[idx + 1])].body)

RECURSIVE FetchAll(_, _, _)
FetchAll(cache, reduced, n) ==
    IF n = 0 THEN cache
    ELSE get_sig_by_index_in_reduced(FetchAll(cache, reduced, n - 1), reduced, n - 1)

\* bool((sig or {}).get(f"{ssp}_ads"))
HasAds(sig, ssp) == sig.known /\ sig.ads[ssp]

\* Line 768.
EventType(a_has, b_has) ==
    IF ~a_has /\ b_has THEN "added"
    ELSE IF a_has /\ ~b_has THEN "removed"
    ELSE "changed"

\* Mutant of the provider selection: only the first provider that differs is kept.
ChangedSsps_first(sig_lo, sig_hi) ==
    LET IsChanged(ssp) == HasAds(sig_lo, ssp) # HasAds(sig_hi, ssp)
        all == SelectSeq(SSP_ORDER, IsChanged)
    IN  IF all = << >> THEN all ELSE <<all[1]>>

\* Lines 756-761.
ChangedSsps(sig_lo, sig_hi) ==
    LET IsChanged(ssp) == HasAds(sig_lo, ssp) # HasAds(sig_hi, ssp)
    IN  SelectSeq(SSP_ORDER, IsChanged)

\* Lines 762-779: the events of one bracket.
EventsOfBracket(cache, reduced, lo, hi) ==
    LET sig_lo == CachedSignature(cache, reduced, lo)
        sig_hi == CachedSignature(cache, reduced, hi)
        changed_ssps == ChangedSsps(sig_lo, sig_hi)
    IN  [k \in 1..Len(changed_ssps) |->
            [ ssp         |-> changed_ssps[k],
              type        |-> EventType(HasAds(sig_lo, changed_ssps[k]),
                                        HasAds(sig_hi, changed_ssps[k])),
              window_from |-> DayOf(reduced[lo + 1].timestamp),
              window_to   |-> DayOf(reduced[hi + 1].timestamp),
              index_lo    |-> lo,
              index_hi    |-> hi ]]

\* Lines 780-785: the sentence that follows the append of an event.
SentenceOf(ev) ==
    [ kind        |-> IF ev.type = "added" THEN "foi ADICIONADO"
                      ELSE IF ev.type = "removed" THEN "foi REMOVIDO"
                      ELSE "mudou assinatura",
      ssp         |-> ev.ssp,
      window_from |-> ev.window_from,
      window_to   |-> ev.window_to ]

SentencesOf(evs) == [k \in 1..Len(evs) |-> SentenceOf(evs[k])]

\* Line 913: the sentence for a period without changes.
NoChangeSentence ==
    [kind |-> "Sem mudancas detectadas", ssp |-> "", window_from |-> 0, window_to |-> 0]

\* Lines 912-913.
WithDefaultSentence(summary) ==
    IF summary = << >> THEN <<NoChangeSentence>> ELSE summary

\* The lambda of line 750: index -> cached signature.
CacheGetSig(cache, reduced) ==
    [i \in 0..(Len(reduced) - 1) |-> CachedSignature(cache, reduced, i)]

MaxSnaps == 4

\* Successive timestamps: the same one again, the next day, the next year.
NextTimestamps(ts) == {ts, ts + 10, (YearOf(ts) + 1) * 10000 + 10}
FirstTimestamp == 20200010

RECURSIVE TimestampLists(_)
TimestampLists(n) ==
    IF n = 0 THEN { << >> }
    ELSE IF n = 1 THEN { <<FirstTimestamp>> }
    ELSE { Append(tl, t) : <<tl, t>> \in
              UNION { {tl} \X NextTimestamps(Last(tl)) : tl \in TimestampLists(n - 1) } }

(***************************************************************************)
(* Specification SpecAnalyze: analyze_domain from the list the index query  *)
(* returned to the localized events, one loop pass per step.                *)
(***************************************************************************)
InitAnalyze ==
    /\ SigIdle
    /\ ReqIdle
    /\ BsIdle
    /\ FtIdle
    /\ ExIdle
    /\ MainIdle
    /\ PlIdle
    /\ CdxIdle
    /\ \E n \in 0..MaxSnaps :
         \E tl \in TimestampLists(n), kinds \in [1..n -> CaptureKinds] :
            snaps = [i \in 1..n |-> [timestamp |-> tl[i],
                                     digest    |-> kinds[i].digest,
                                     body      |-> kinds[i].body]]
    /\ snaps_reduced = << >>
    /\ sampled_indices = << >>
    /\ sig_cache = << >>
    /\ windows_to_check = << >>
    /\ loop_i = 0
    /\ events = << >>
    /\ snapshots_records = << >>
    /\ human_summary = << >>
    /\ anaPc = "sample"

\* Lines 660-661: nothing listed.
AnaReturnEmpty ==
    /\ anaPc = "sample"
    /\ snaps = << >>
    /\ anaPc' = "done"
    /\ UNCHANGED <<snaps, snaps_reduced, sampled_indices, sig_cache, windows_to_check,
                   loop_i, events, snapshots_records, human_summary, otherThanAna>>

\* Lines 685-694 and 725-730.
AnaSample ==
    /\ anaPc = "sample"
    /\ snaps # << >>
    /\ LET reduced == IF Len(snaps) > MAX_SNAPSHOT_FETCH
                      THEN reduce_snapshots_to_daily(snaps) ELSE snaps
           sampled == WithEndpoints(evenly_sample_by_year(reduced, SNAPSHOTS_PER_YEAR), reduced)
       IN  /\ snaps_reduced' = reduced
           /\ sampled_indices' = SampledIndices(sampled, reduced)
    /\ loop_i' = 1
    /\ anaPc' = "windows"
    /\ UNCHANGED <<snaps, sig_cache, windows_to_check, events, snapshots_records,
                   human_summary, otherThanAna>>

\* Lines 733-739: one pass of the loop over adjacent sampled indices.
AnaCheckWindow ==
    /\ anaPc = "windows"
    /\ loop_i <= Len(sampled_indices) - 1
    /\ LET a_idx == sampled_indices[loop_i]
           b_idx == sampled_indices[loop_i + 1]
           cache == get_sig_by_index_in_reduced(
                        get_sig_by_index_in_reduced(sig_cache, snaps_reduced, a_idx),
                        snaps_reduced, b_idx)
       IN  /\ sig_cache' = cache
           /\ windows_to_check' =
                 IF signatures_equal(CachedSignature(cache, snaps_reduced, a_idx),
                                     CachedSignature(cache, snaps_reduced, b_idx), TRUE)
                 THEN windows_to_check
                 ELSE Append(windows_to_check, <<a_idx, b_idx>>)
    /\ loop_i' = loop_i + 1
    /\ UNCHANGED <<snaps, snaps_reduced, sampled_indices, events, snapshots_records,
                   human_summary, anaPc, otherThanAna>>

\* Lines 744-746: every observation of the reduced list gets its cache entry.
AnaFetchAll ==
    /\ anaPc = "windows"
    /\ loop_i > Len(sampled_indices) - 1
    /\ sig_cache' = FetchAll(sig_cache, snaps_reduced, Len(snaps_reduced))
    /\ loop_i' = 1
    /\ anaPc' = "localize"
    /\ UNCHANGED <<snaps, snaps_reduced, sampled_indices, windows_to_check, events,
                   snapshots_records, human_summary, otherThanAna>>

\* Lines 749-798: one pass of the loop over the windows to check.
AnaLocalize ==
    /\ anaPc = "localize"
    /\ loop_i <= Len(windows_to_check)
    /\ LET w == windows_to_check[loop_i]
           res == binary_search_change(CacheGetSig(sig_cache, snaps_reduced), w[1], w[2])
       IN  IF ~res.found
           THEN UNCHANGED <<events, snapshots_records, human_summary>>
           ELSE /\ events' = events \o EventsOfBracket(sig_cache, snaps_reduced, res.lo, res.hi)
                /\ human_summary' = human_summary \o
                        SentencesOf(EventsOfBracket(sig_cache, snaps_reduced, res.lo, res.hi))
                /\ snapshots_records' = Append(snapshots_records,
                        [pos_lo |-> res.lo, pos_hi |-> res.hi,
                         timestamp_lo |-> snaps_reduced[res.lo + 1].timestamp,
                         timestamp_hi |-> snaps_reduced[res.hi + 1].timestamp])
    /\ loop_i' = loop_i + 1
    /\ UNCHANGED <<snaps, snaps_reduced, sampled_indices, sig_cache, windows_to_check,
                   anaPc, otherThanAna>>

\* The loop of line 749 is over.  No capture of this specification lists
\* eight providers, so the loop of lines 811-848 adds nothing; lines 912-915
\* add the default sentence to an empty summary and return.
AnaLocalized ==
    /\ anaPc = "localize"
    /\ loop_i > Len(windows_to_check)
    /\ human_summary' = WithDefaultSentence(human_summary)
    /\ anaPc' = "done"
    /\ UNCHANGED <<snaps, snaps_reduced, sampled_indices, sig_cache, windows_to_check,
                   loop_i, events, snapshots_records, otherThanAna>>

NextAnalyze ==
    AnaReturnEmpty \/ AnaSample \/ AnaCheckWindow \/ AnaFetchAll \/ AnaLocalize \/ AnaLocalized

SpecAnalyze == InitAnalyze /\ [][NextAnalyze]_vars

AnaGetSig == CacheGetSig(sig_cache, snaps_reduced)

EventSet == Range(events)

\* C2 as stated: every added/removed/changed event has index_hi = index_lo + 1,
\* whatever mix of known and unknown signatures the observations have.
C2_EventWindowsAdjacent ==
    \A e \in EventSet : e.index_hi = e.index_lo + 1

\* C2, amended: every event has index_lo < index_hi, and index_hi = index_lo + 1
\* unless the bisection stopped on a bracket whose midpoint signature, and that of
\* each probe position strictly inside the bracket, is unknown.
C2_AdjacentUnlessUnknownMid ==
    \A e \in EventSet :
        /\ e.index_lo < e.index_hi
        /\ e.index_hi > e.index_lo + 1 =>
              ~MidChoice(AnaGetSig, [lo |-> e.index_lo, hi |-> e.index_hi]).usable

\* An event was emitted for a bracket two indices wide around an unknown signature.
C2_Witness ==
    /\ anaPc = "done"
    /\ \E e \in EventSet :
          /\ e.index_hi = e.index_lo + 2
          /\ ~AnaGetSig[e.index_lo + 1].known
          /\ AnaGetSig[e.index_lo].known /\ AnaGetSig[e.index_hi].known

EventsAt(ssp, lo, hi) ==
    { k \in 1..Len(events) :
        events[k].ssp = ssp /\ events[k].index_lo = lo /\ events[k].index_hi = hi }

Brackets == { <<r.pos_lo, r.pos_hi>> : r \in Range(snapshots_records) }

\* C3: for each bracket the localizer returned there is exactly one event per
\* provider whose presence flag differs between lo and hi (an unknown signature has
\* no provider present), none for the other providers, each with the bracket's
\* window, typed added for absent -> present and removed for present -> absent.
C3_OneEventPerChangedProvider ==
    /\ \A e \in EventSet : <<e.index_lo, e.index_hi>> \in Brackets
    /\ \A b \in Brackets : \A ssp \in SSPs :
          LET a_has == HasAds(AnaGetSig[b[1]], ssp)
              b_has == HasAds(AnaGetSig[b[2]], ssp)
              at == EventsAt(ssp, b[1], b[2])
          IN  /\ Cardinality(at) = IF a_has # b_has THEN 1 ELSE 0
              /\ \A k \in at :
                    /\ events[k].type = IF b_has THEN "added" ELSE "removed"
                    /\ events[k].window_from = DayOf(snaps_reduced[b[1] + 1].timestamp)
                    /\ events[k].window_to = DayOf(snaps_reduced[b[2] + 1].timestamp)

\* One bracket between two known signatures gave a removed and an added event.
C3_Witness ==
    /\ anaPc = "done"
    /\ \E b \in Brackets :
          /\ AnaGetSig[b[1]].known /\ AnaGetSig[b[2]].known
          /\ \E j, k \in 1..Len(events) :
                /\ events[j].type = "removed" /\ events[k].type = "added"
                /\ <<events[j].index_lo, events[j].index_hi>> = b
                /\ <<events[k].index_lo, events[k].index_hi>> = b

\* C4 as stated: a provider present in both signatures of a localized bracket whose
\* participant-ID sets differ gets a changed event with that bracket's window.
C4_ChangedEventForIdChange ==
    \A b \in Brackets : \A ssp \in SSPs :
        LET lo == AnaGetSig[b[1]]
            hi == AnaGetSig[b[2]]
        IN  (/\ HasAds(lo, ssp) /\ HasAds(hi, ssp)
             /\ \/ lo.list_direct[ssp] # hi.list_direct[ssp]
                \/ lo.list_reseller[ssp] # hi.list_reseller[ssp])
            => \E k \in EventsAt(ssp, b[1], b[2]) : events[k].type = "changed"

\* The provider set of a signature.
Providers(sig) == { ssp \in SSPs : HasAds(sig, ssp) }

AnaIndices == 0..(Len(snaps_reduced) - 1)

AnaAllKnown == \A i \in AnaIndices : AnaGetSig[i].known

\* The provider set changes between k and k+1 and nowhere else.
ProviderBoundary(k) ==
    /\ k \in AnaIndices /\ k + 1 \in AnaIndices
    /\ Providers(AnaGetSig[k]) # Providers(AnaGetSig[k + 1])
    /\ \A i \in AnaIndices :
          Providers(AnaGetSig[i]) = Providers(AnaGetSig[IF i <= k THEN k ELSE k + 1])

\* Exactly one event per provider whose presence changes across k|k+1, windowed on
\* that pair, and no other event.
EventsExactlyAt(k) ==
    LET changed == { ssp \in SSPs : HasAds(AnaGetSig[k], ssp) # HasAds(AnaGetSig[k + 1], ssp) }
    IN  /\ Len(events) = Cardinality(changed)
        /\ \A ssp \in changed :
              \E j \in 1..Len(events) :
                 /\ events[j].ssp = ssp
                 /\ events[j].index_lo = k /\ events[j].index_hi = k + 1
                 /\ events[j].window_from = DayOf(snaps_reduced[k + 1].timestamp)
                 /\ events[j].window_to = DayOf(snaps_reduced[k + 2].timestamp)
                 /\ events[j].type = IF HasAds(AnaGetSig[k], ssp) THEN "removed" ELSE "added"

\* C5 as stated: with all signatures known and the provider set changing at exactly
\* one boundary, the event list holds exactly one event per provider whose presence
\* changed, windowed on the adjacent pair at the boundary, and nothing else.
C5_SingleProviderBoundary ==
    (anaPc = "done" /\ snaps # << >> /\ AnaAllKnown) =>
        \A k \in AnaIndices : ProviderBoundary(k) => EventsExactlyAt(k)

DistinctTimestamps ==
    \A i, j \in 1..Len(snaps_reduced) :
        i # j => snaps_reduced[i].timestamp # snaps_reduced[j].timestamp

\* Besides the provider set, the unique-ID counts are the same on each side of k|k+1.
SignatureBoundary(k) ==
    /\ ProviderBoundary(k)
    /\ \A i \in AnaIndices :
          SameSignature(AnaGetSig[i], AnaGetSig[IF i <= k THEN k ELSE k + 1])

\* Where the events of C5 are emitted: observations with pairwise distinct timestamps
\* whose signatures (presence flags and unique-ID counts) are the same on each side
\* of the boundary.
SingleSignatureBoundaryEvents ==
    (anaPc = "done" /\ snaps # << >> /\ AnaAllKnown /\ DistinctTimestamps) =>
        \A k \in AnaIndices : SignatureBoundary(k) => EventsExactlyAt(k)

(***************************************************************************)
(* Signature memo: get_sig_by_index_in_reduced with its fetch, the          *)
(* truncation heuristics and the cache                                      *)
(***************************************************************************)
TRUNCATION_MIN_BYTES == 64

\* TRUNCATION_RELATIVE_THRESHOLD = 0.20 as a ratio: length < 0.20 * med exactly when
\* RelativeDen * length < med (the float product agrees for lengths below 3000).
RelativeDen == 5

\* The length field of the index: int(length), or None when the field is empty.
NoLength == -1
LengthPool == {NoLength, 0, 50, 100, 1000}

RECURSIVE InsertInt(_, _)
InsertInt(sorted, x) ==
    IF sorted = << >> \/ x >= Last(sorted) THEN Append(sorted, x)
    ELSE Append(InsertInt(Front(sorted), x), Last(sorted))

RECURSIVE SortInts(_)
SortInts(seq) == IF seq = << >> THEN << >> ELSE InsertInt(SortInts(Front(seq)), Last(seq))

\* Lines 553-562; NoLength when there is no positive length.
median_length_of_snapshots(list) ==
    LET Counts(x) == x.length # NoLength /\ x.length > 0
        kept == SelectSeq(list, Counts)
        vals == SortInts([i \in 1..Len(kept) |-> kept[i].length])
        n    == Len(vals)
    IN  IF n = 0 THEN NoLength
        ELSE IF n % 2 = 1 THEN vals[(n \div 2) + 1]
        ELSE (vals[n \div 2] + vals[(n \div 2) + 1]) \div 2

\* Mutant of the heuristic: the relative rule compares with the whole median.
is_length_suspicious_whole_median(snapshot, snaps_context) ==
    LET med == median_length_of_snapshots(snaps_context) IN
    IF snapshot.length = NoLength THEN FALSE
    ELSE IF med = NoLength THEN FALSE
    ELSE IF snapshot.length < TRUNCATION_MIN_BYTES THEN TRUE
    ELSE snapshot.length <= med

\* Lines 564-578.
is_length_suspicious(snapshot, snaps_context) ==
    LET med == median_length_of_snapshots(snaps_context) IN
    IF snapshot.length = NoLength THEN FALSE
    ELSE IF med = NoLength THEN FALSE
    ELSE IF snapshot.length < TRUNCATION_MIN_BYTES THEN TRUE
    ELSE RelativeDen * snapshot.length < med

\* The texts the content endpoint may serve: nothing, one google line with and
\* without its final newline, a comment line only.
Texts == {"", "A\n", "A", "#\n"}

EndsWithNewline(text) == text \in {"A\n", "#\n"}

\* parse_ads_txt of a served text.
TextEntries(text) == IF text \in {"A\n", "A"} THEN BodyA.entries ELSE << >>

SigOfNoEntries == build_signature_from_ads(<< >>)

TextSignature(text) == IF text \in {"A\n", "A"} THEN SigOfA ELSE SigOfNoEntries

NoOutcome == [kind |-> "", status |-> 0, text |-> ""]

\* What the request of wayback_fetch may end in: safe_request returns None, something
\* raises, or a response with a status and a text comes back.
FetchOutcomes ==
    { [kind |-> "none", status |-> 0, text |-> ""],
      [kind |-> "raise", status |-> 0, text |-> ""] }
    \cup [kind : {"response"}, status : {200, 204}, text : Texts]
    \cup { [kind |-> "response", status |-> 404, text |-> "A\n"] }

\* Lines 397-413: (status, text); a response with an error status is falsy, so it
\* ends like None. Status 0 stands for None.
wayback_fetch(outcome) ==
    IF outcome.kind = "none" \/ outcome.status >= 400
    THEN [status |-> 0, text |-> "None"]
    ELSE [status |-> outcome.status, text |-> outcome.text]

\* Lines 718-721: the record of a fetch that gave nothing usable.
FailedRecord(snap) ==
    [known |-> FALSE, entries |-> << >>, suspect |-> TRUE, raw |-> "None",
     length |-> snap.length, digest |-> snap.digest, timestamp |-> snap.timestamp]

\* Mutant of the record: any status that is not None counts as a success.
FetchedRecord_any_status(snap, snaps_context, outcome) ==
    LET got == wayback_fetch(outcome) IN
    IF outcome.kind = "raise" THEN FailedRecord(snap)
    ELSE IF got.status # 0 /\ got.text \notin {"None", ""}
    THEN [known |-> TRUE, entries |-> TextEntries(got.text),
          suspect |-> (~EndsWithNewline(got.text)) \/ is_length_suspicious(snap, snaps_context),
          raw |-> got.text,
          length |-> snap.length, digest |-> snap.digest, timestamp |-> snap.timestamp]
    ELSE FailedRecord(snap)

\* Lines 705-721: the record built from a fetch; known says the signature is not None
\* (it is then TextSignature(raw)).
FetchedRecord(snap, snaps_context, outcome) ==
    LET got == wayback_fetch(outcome) IN
    IF outcome.kind = "raise" THEN FailedRecord(snap)
    ELSE IF got.status = 200 /\ got.text \notin {"None", ""}
    THEN [known |-> TRUE, entries |-> TextEntries(got.text),
          suspect |-> (~EndsWithNewline(got.text)) \/ is_length_suspicious(snap, snaps_context),
          raw |-> got.text,
          length |-> snap.length, digest |-> snap.digest, timestamp |-> snap.timestamp]
    ELSE FailedRecord(snap)

\* Mutant of the cache test: a record without a signature is fetched again.
CacheHit_known_only(cache, key) == key \in DOMAIN cache /\ cache[key].known

\* Line 703.
CacheHit(cache, key) == key \in DOMAIN cache

MaxFetchLen == 2

\* The identities (timestamp, digest) the index may list: two captures of one second
\* with different digests and a capture of the next day.
FetchIdentities ==
    { [timestamp |-> FirstTimestamp, digest |-> "dA"],
      [timestamp |-> FirstTimestamp, digest |-> "dB"],
      [timestamp |-> FirstTimestamp + 10, digest |-> "dA"] }

(***************************************************************************)
(* Specification SpecFetch: the calls of get_sig_by_index_in_reduced that   *)
(* one analyze_domain call makes on its reduced list, in any order.         *)
(***************************************************************************)
InitFetch ==
    /\ SigIdle
    /\ ReqIdle
    /\ BsIdle
    /\ AnaIdle
    /\ ExIdle
    /\ MainIdle
    /\ PlIdle
    /\ CdxIdle
    /\ \E n \in 1..MaxFetchLen :
         \E ids \in [1..n -> FetchIdentities], lens \in [1..n -> LengthPool] :
            /\ \A i \in 1..(n - 1) : ids[i].timestamp <= ids[i + 1].timestamp
            /\ ftSnaps = [i \in 1..n |-> [timestamp |-> ids[i].timestamp,
                                          digest    |-> ids[i].digest,
                                          length    |-> lens[i]]]
    /\ ftCache = << >>
    /\ ftFetches = [k \in { CacheKey(ftSnaps[i]) : i \in 1..Len(ftSnaps) } |-> 0]
    /\ ftIdx = -1
    /\ ftReturned = NoRecord
    /\ ftHit = FALSE
    /\ ftOutcome = NoOutcome
    /\ ftPc = "calls"

\* Lines 701-704: the key is in the cache and its record is returned.
FtCallCached ==
    /\ ftPc = "calls"
    /\ \E idx \in 0..(Len(ftSnaps) - 1) :
         LET key == CacheKey(ftSnaps[idx + 1]) IN
         /\ CacheHit(ftCache, key)
         /\ ftIdx' = idx
         /\ ftReturned' = ftCache[key]
    /\ ftHit' = TRUE
    /\ ftOutcome' = NoOutcome
    /\ UNCHANGED <<ftSnaps, ftCache, ftFetches, ftPc, otherThanFt>>

\* Lines 701-723: the key is not in the cache; the content is fetched, the record is
\* built, stored under the key and returned.
FtCallFetch ==
    /\ ftPc = "calls"
    /\ \E idx \in 0..(Len(ftSnaps) - 1), outcome \in FetchOutcomes :
         LET s       == ftSnaps[idx + 1]
             key     == CacheKey(s)
             fetched == FetchedRecord(s, ftSnaps, outcome)
         IN  /\ ~CacheHit(ftCache, key)
             /\ ftIdx' = idx
             /\ ftFetches' = [ftFetches EXCEPT ![key] = @ + 1]
             /\ ftCache' = [k \in DOMAIN ftCache \cup {key} |->
                               IF k = key THEN fetched ELSE ftCache[k]]
             /\ ftReturned' = fetched
             /\ ftOutcome' = outcome
    /\ ftHit' = FALSE
    /\ UNCHANGED <<ftSnaps, ftPc, otherThanFt>>

NextFetch == FtCallCached \/ FtCallFetch

SpecFetch == InitFetch /\ [][NextFetch]_vars

FtKeys == { CacheKey(ftSnaps[i]) : i \in 1..Len(ftSnaps) }

\* C14: each observation identity (timestamp, digest) is fetched at most once; a cache
\* entry, once written, is never changed or fetched for again, and a later call for
\* its key returns that same record, a failed one included.
C14_FetchedOncePerKey ==
    /\ [](\A k \in FtKeys : ftFetches[k] <= 1 /\ (k \in DOMAIN ftCache <=> ftFetches[k] = 1))
    /\ [][\A k \in DOMAIN ftCache :
            /\ k \in DOMAIN ftCache'
            /\ ftCache'[k] = ftCache[k]
            /\ ftFetches'[k] = ftFetches[k]
            /\ (ftIdx' >= 0 /\ CacheKey(ftSnaps[ftIdx' + 1]) = k) => ftReturned' = ftCache[k]
         ]_vars

\* A key whose first fetch failed was asked for again, by another index that carries
\* the same identity, and the failed record came back without a second fetch.
C14_Witness ==
    /\ ftHit
    /\ ftIdx = 1
    /\ CacheKey(ftSnaps[1]) = CacheKey(ftSnaps[2])
    /\ ftFetches[CacheKey(ftSnaps[2])] = 1
    /\ ~ftReturned.known
    /\ ftReturned = ftCache[CacheKey(ftSnaps[2])]

\* The fetch of the latest call gave nothing usable: safe_request returned None,
\* something raised, the status was not 200 or the content was empty.
FetchGaveNothing ==
    /\ ftIdx >= 0 /\ ~ftHit
    /\ \/ ftOutcome.kind \in {"none", "raise"}
       \/ ftOutcome.status # 200
       \/ ftOutcome.text = ""

\* C15: when the content fetch returns nothing, a non-success status or an empty
\* content, or something raises, the call still returns a record, and it has
\* signature None, no entries and suspect = true; the records of the other
\* observations are as they were.
C15_FailedFetchIsUnknown ==
    FetchGaveNothing =>
        /\ ~ftReturned.known
        /\ ftReturned.entries = << >>
        /\ ftReturned.suspect
        /\ ftReturned.raw = "None"
        /\ ftCache[CacheKey(ftSnaps[ftIdx + 1])] = ftReturned

\* A 204 response with a well-formed body, fetched after another observation's
\* successful fetch, left an unknown record and the first record in place.
C15_Witness ==
    /\ FetchGaveNothing
    /\ ftOutcome = [kind |-> "response", status |-> 204, text |-> "A\n"]
    /\ ftIdx = 1
    /\ ~ftReturned.known /\ ftReturned.suspect
    /\ CacheKey(ftSnaps[1]) # CacheKey(ftSnaps[2])
    /\ CacheKey(ftSnaps[1]) \in DOMAIN ftCache
    /\ ftCache[CacheKey(ftSnaps[1])].known

\* C16: every cache record of an observation whose index-reported length is below
\* TRUNCATION_MIN_BYTES (64) has suspect = true, whatever the lengths of the list and
\* the fetched content.
C16_ShortLengthIsSuspect ==
    \A k \in DOMAIN ftCache :
        (ftCache[k].length # NoLength /\ ftCache[k].length < 64) => ftCache[k].suspect

\* What holds of the absolute floor: it flags a short observation when the list has
\* at least one positive length.
ShortLengthIsSuspectGivenMedian ==
    \A k \in DOMAIN ftCache :
        (/\ ftCache[k].length # NoLength /\ ftCache[k].length < 64
         /\ median_length_of_snapshots(ftSnaps) # NoLength) => ftCache[k].suspect

FtMedian == median_length_of_snapshots(ftSnaps)

\* C17: a record whose length is at least the median length of the reduced list is
\* suspect only through the absolute floor, a missing final newline or a failed fetch.
C17_AtLeastMedianNotRelativeSuspect ==
    \A k \in DOMAIN ftCache :
        (/\ FtMedian # NoLength
         /\ ftCache[k].length # NoLength /\ ftCache[k].length >= FtMedian
         /\ ftCache[k].suspect)
        => \/ ftCache[k].length < 64
           \/ ~ftCache[k].known
           \/ ~EndsWithNewline(ftCache[k].raw)

\* Lengths 100 and 1000 (median 550), both fetched well: the first is suspect by the
\* relative rule, the second, above the median, is not suspect.
C17_Witness ==
    /\ Len(ftSnaps) = 2
    /\ ftSnaps[1].length = 100 /\ ftSnaps[2].length = 1000
    /\ CacheKey(ftSnaps[1]) # CacheKey(ftSnaps[2])
    /\ DOMAIN ftCache = FtKeys
    /\ LET r1 == ftCache[CacheKey(ftSnaps[1])]
           r2 == ftCache[CacheKey(ftSnaps[2])]
       IN  /\ r1.known /\ r1.raw = "A\n" /\ r1.suspect
           /\ r2.known /\ r2.raw = "A\n" /\ ~r2.suspect

(***************************************************************************)
(* Exclusivity pass of analyze_domain (lines 800-848)                       *)
(***************************************************************************)
EXCLUSIVITY_MIN_PERSIST_DAYS == 7
EXCLUSIVITY_MIN_CONSECUTIVE == 2

\* The "high" provider count of line 815.
HighCount == 8

OneLine(host) == <<host, "pub-1", "DIRECT">>

\* Bodies for this pass: eight providers, the first seven of them, two providers
\* ("AB"), google alone ("A"), pubmatic alone ("B"); any other name is a failed fetch.
Body7 == Content(<< OneLine("google.com"), OneLine("magnite.com"), OneLine("ads.pubmatic.com"),
                    OneLine("indexexchange.com"), OneLine("openx.com"), OneLine("xandr.com"),
                    OneLine("triplelift.com") >>)
Body8 == Content(Append(Body7.entries, OneLine("sharethrough.com")))

SigOf7 == SignatureOf(Body7)
SigOf8 == SignatureOf(Body8)

ExSignature(name) ==
    CASE name = "H8" -> SigOf8
      [] name = "H7" -> SigOf7
      [] OTHER       -> FetchedSignature(name)

ExBodies == {"H8", "H7", "AB", "A", "B", "fail"}

\* Lines 805-808: the number of catalog providers present; 0 for signature None.
ProviderCount(sig) ==
    IF sig.known THEN Cardinality({ ssp \in SSPs : sig.ads[ssp] }) ELSE 0

\* Line 817.
Remaining(sig) ==
    LET Has(ssp) == HasAds(sig, ssp) IN SelectSeq(SSP_ORDER, Has)

\* (cur_ts - prev_ts).days for captures of one year taken at the same time of day.
DaysBetween(prev_ts, cur_ts) == DayOf(cur_ts) - DayOf(prev_ts)

\* Mutant of the trigger: the count before the single provider is not looked at.
IsHighToSingle_any_prev(prev_count, cur_count) == cur_count = 1

\* Mutant of the trigger: a count of seven also counts as high.
IsHighToSingle_seven(prev_count, cur_count) == prev_count >= 7 /\ cur_count = 1

\* Line 815.
IsHighToSingle(prev_count, cur_count) == prev_count >= HighCount /\ cur_count = 1

\* Mutant of the emission test: one observation is enough.
RunLongEnough_one(consec) == consec >= 1

\* Line 837.
RunLongEnough(consec) == consec >= EXCLUSIVITY_MIN_CONSECUTIVE

\* Lines 822-836: consec when the while loop ends; j is a 0-based index.
RECURSIVE CountRun(_, _, _, _)
CountRun(list, ssp_rem, consec, j) ==
    IF j >= Len(list) THEN consec
    ELSE LET nxt_sig == ExSignature(list[j + 1].body) IN
         IF ProviderCount(nxt_sig) = 1 /\ HasAds(nxt_sig, ssp_rem)
         THEN IF \/ DaysBetween(list[j].timestamp, list[j + 1].timestamp)
                       >= EXCLUSIVITY_MIN_PERSIST_DAYS
                 \/ consec + 1 >= EXCLUSIVITY_MIN_CONSECUTIVE
              THEN CountRun(list, ssp_rem, consec + 1, j + 1)
              ELSE consec
         ELSE consec

\* Lines 812-848: what the pass for i (0-based, i >= 1) appends to events.
ExclusivityEvents(list, i) ==
    LET prev == list[i]
        cur  == list[i + 1]
        cur_sig == ExSignature(cur.body)
        remaining == Remaining(cur_sig)
    IN  IF /\ IsHighToSingle(ProviderCount(ExSignature(prev.body)), ProviderCount(cur_sig))
           /\ Len(remaining) = 1
           /\ RunLongEnough(CountRun(list, remaining[1], 1, i + 1))
        THEN << [ ssp         |-> remaining[1],
                  type        |-> "potential_exclusivity",
                  window_from |-> DayOf(prev.timestamp),
                  window_to   |-> DayOf(cur.timestamp),
                  consecutive |-> CountRun(list, remaining[1], 1, i + 1) ] >>
        ELSE << >>

MaxExLen == 4

\* Successive observations are a day or ten days apart.
ExGaps == {10, 100}

RECURSIVE ExTimestampLists(_)
ExTimestampLists(n) ==
    IF n = 1 THEN { <<FirstTimestamp>> }
    ELSE { Append(tl, Last(tl) + g) : <<tl, g>> \in ExTimestampLists(n - 1) \X ExGaps }

(***************************************************************************)
(* Specification SpecExcl: the loop of line 811, one pass per step.         *)
(***************************************************************************)
InitExcl ==
    /\ SigIdle
    /\ ReqIdle
    /\ BsIdle
    /\ AnaIdle
    /\ FtIdle
    /\ MainIdle
    /\ PlIdle
    /\ CdxIdle
    /\ \E n \in 1..MaxExLen :
         \E tl \in ExTimestampLists(n), bodies \in [1..n -> ExBodies] :
            exSnaps = [k \in 1..n |-> [timestamp |-> tl[k], body |-> bodies[k]]]
    /\ exI = 1
    /\ exEvents = << >>
    /\ exPc = "loop"

ExPass ==
    /\ exPc = "loop"
    /\ exI < Len(exSnaps)
    /\ exEvents' = exEvents \o ExclusivityEvents(exSnaps, exI)
    /\ exI' = exI + 1
    /\ UNCHANGED <<exSnaps, exPc, otherThanEx>>

ExLoopEnd ==
    /\ exPc = "loop"
    /\ exI >= Len(exSnaps)
    /\ exPc' = "done"
    /\ UNCHANGED <<exSnaps, exI, exEvents, otherThanEx>>

NextExcl == ExPass \/ ExLoopEnd

SpecExcl == InitExcl /\ [][NextExcl]_vars

\* The observations of the pass by position k (1-based).
ExSigAt(k) == ExSignature(exSnaps[k].body)
ExCount(k) == ProviderCount(ExSigAt(k))
ExDay(k) == DayOf(exSnaps[k].timestamp)

\* Position k holds a single provider right after a high-count observation.
ExTrigger(k) ==
    /\ k \in 2..Len(exSnaps)
    /\ ExCount(k - 1) >= 8
    /\ ExCount(k) = 1

\* The last position of the run of observations, from k on, that hold the one provider
\* of position k and nothing else.
ExRunEnd(k) ==
    SetMax({ r \in k..Len(exSnaps) :
                \A m \in k..r : ExCount(m) = 1 /\ Providers(ExSigAt(m)) = Providers(ExSigAt(k)) })

ExRunLength(k) == ExRunEnd(k) - k + 1
ExRunSpanDays(k) == ExDay(ExRunEnd(k)) - ExDay(k)

\* The events whose window ends on the day of position k (days are pairwise distinct).
ExEventsAt(k) == { e \in 1..Len(exEvents) : exEvents[e].window_to = ExDay(k) }

\* C18: after the pass, a single-provider run that follows a high-count observation
\* has no potential_exclusivity event when it has fewer than 2 observations and spans
\* less than 7 days, and exactly one, for its provider, when it has at least 2
\* observations or spans at least 7 days.
C18_ExclusivityMinimum ==
    exPc = "done" =>
        \A k \in 2..Len(exSnaps) :
            ExTrigger(k) =>
                /\ (ExRunLength(k) < 2 /\ ExRunSpanDays(k) < 7) => ExEventsAt(k) = {}
                /\ (ExRunLength(k) >= 2 \/ ExRunSpanDays(k) >= 7) =>
                      /\ Cardinality(ExEventsAt(k)) = 1
                      /\ \A e \in ExEventsAt(k) :
                            /\ Providers(ExSigAt(k)) = {exEvents[e].ssp}
                            /\ exEvents[e].type = "potential_exclusivity"

\* Eight providers, then google alone twice a day apart, then two providers: the run
\* of two gave one event, though it spans one day only.
C18_Witness ==
    /\ exPc = "done"
    /\ [k \in 1..Len(exSnaps) |-> exSnaps[k].body] = <<"H8", "A", "A", "AB">>
    /\ ExRunSpanDays(2) = 1
    /\ Len(exEvents) = 1
    /\ exEvents[1].ssp = "google" /\ exEvents[1].consecutive = 2

\* C19: the window of a potential_exclusivity event extends to the day of the last
\* observation of the single-provider run that produced it.
C19_WindowCoversRun ==
    \A e \in 1..Len(exEvents) :
        \E k \in 2..Len(exSnaps) :
            /\ ExTrigger(k)
            /\ exEvents[e].window_from \in {ExDay(k - 1), ExDay(k)}
            /\ exEvents[e].window_to = ExDay(ExRunEnd(k))

\* What the window is: the day of the high-count observation and the day of the first
\* observation of the run.
ExclusivityWindowIsTransitionPair ==
    \A e \in 1..Len(exEvents) :
        \E k \in 2..Len(exSnaps) :
            /\ exEvents[e].window_from = ExDay(k - 1)
            /\ exEvents[e].window_to = ExDay(k)
            /\ ExTrigger(k)

\* C20: every potential_exclusivity event for a provider stands at a position whose
\* predecessor has at least 8 providers and which has exactly that one provider; a
\* position reached by any other transition has no event.
C20_OnlyHighToSingle ==
    /\ \A e \in 1..Len(exEvents) :
          \E k \in 2..Len(exSnaps) :
             /\ exEvents[e].window_from = ExDay(k - 1)
             /\ exEvents[e].window_to = ExDay(k)
             /\ ExCount(k - 1) >= 8
             /\ ExCount(k) = 1
             /\ Providers(ExSigAt(k)) = {exEvents[e].ssp}
    /\ \A k \in 1..Len(exSnaps) : ~ExTrigger(k) => ExEventsAt(k) = {}

\* Seven providers, eight providers, then pubmatic alone twice: one event, at the
\* third observation.
C20_Witness ==
    /\ exPc = "done"
    /\ [k \in 1..Len(exSnaps) |-> exSnaps[k].body] = <<"H7", "H8", "B", "B">>
    /\ Len(exEvents) = 1
    /\ exEvents[1].ssp = "pubmatic"
    /\ exEvents[1].window_to = ExDay(3)

\* The events of the run that starts at position k.
ExRunEvents(k) ==
    { e \in 1..Len(exEvents) :
         exEvents[e].window_from = ExDay(k - 1) /\ exEvents[e].window_to = ExDay(k) }

\* C21 as stated: after the pass, every maximal single-provider run that follows an
\* observation with at least 8 providers has exactly one potential_exclusivity event,
\* for its survivor, and there are no other events.
C21_OneEventPerRun ==
    exPc = "done" =>
        /\ \A k \in 2..Len(exSnaps) :
              ExTrigger(k) =>
                 /\ Cardinality(ExRunEvents(k)) = 1
                 /\ \A e \in ExRunEvents(k) : Providers(ExSigAt(k)) = {exEvents[e].ssp}
        /\ Len(exEvents) = Cardinality({ k \in 2..Len(exSnaps) : ExTrigger(k) })

\* C21, amended: the same for the runs of at least EXCLUSIVITY_MIN_CONSECUTIVE (2)
\* observations; a run of one observation has no event.
C21_OneEventPerPersistedRun ==
    exPc = "done" =>
        /\ \A k \in 2..Len(exSnaps) :
              (ExTrigger(k) /\ ExRunLength(k) >= 2) =>
                 /\ Cardinality(ExRunEvents(k)) = 1
                 /\ \A e \in ExRunEvents(k) : Providers(ExSigAt(k)) = {exEvents[e].ssp}
        /\ Len(exEvents) =
              Cardinality({ k \in 2..Len(exSnaps) : ExTrigger(k) /\ ExRunLength(k) >= 2 })

\* Eight providers, then pubmatic alone three times: one event for the run of three.
C21_Witness ==
    /\ exPc = "done"
    /\ [k \in 1..Len(exSnaps) |-> exSnaps[k].body] = <<"H8", "B", "B", "B">>
    /\ Len(exEvents) = 1
    /\ exEvents[1].ssp = "pubmatic" /\ exEvents[1].consecutive = 3

\* ------------------------------------------------------------------
\* cdx_query: from the answer of the index to the list of Snapshots.
\* ------------------------------------------------------------------
\* Lines 379-393: the rows of five fields or more, as Snapshots.
RECURSIVE RowsToSnapshots(_)
RowsToSnapshots(rows) ==
    IF rows = << >> THEN << >>
    ELSE LET row == Last(rows)
         IN  IF row.fields < 5 THEN RowsToSnapshots(Front(rows))
             ELSE Append(RowsToSnapshots(Front(rows)),
                         [timestamp |-> row.timestamp, original |-> row.original,
                          digest |-> row.digest])

\* Lines 341-395: nothing is returned unless safe_request gave a 200
\* answer holding a JSON list of a header and rows; the Snapshots are
\* returned in ascending order of timestamp.
cdx_query(kind, rows) ==
    IF kind # "rows" \/ rows = << >> THEN << >>
    ELSE SortByTs(RowsToSnapshots(rows))

\* ------------------------------------------------------------------
\* main: the loop over the domains, the report and the progress log.
\* Dates are the integers YYYYMMDD.  The dict log is a function over the
\* domains; NoEntry stands for a domain without an entry (log.get(dom, {})
\* .get("last_checked") is then None).
\* ------------------------------------------------------------------
START_DATE == 20200101

NoEntry == 0

MaxDomains == 3

DomainPool == {"a.com", "b.com"}

\* What the log file may hold for a domain when a run starts.
StoredDates == {NoEntry, 20250601}

\* datetime.utcnow().strftime("%Y%m%d") of the first and of the second run.
RunDates == <<20261101, 20261102>>

DomainLists == UNION {[1..n -> DomainPool] : n \in 1..MaxDomains}

from_date_default(lg, dom) == START_DATE

\* last_checked = log.get(dom, {}).get("last_checked"); from_date is
\* last_checked when it is truthy and args.from_default otherwise.
from_date(lg, dom) == IF lg[dom] # NoEntry THEN lg[dom] ELSE START_DATE

\* log[dom] = {"last_checked": to_date, ...} after analyze_domain returned.
LogAfterSuccess(lg, dom, to_date) == [lg EXCEPT ![dom] = to_date]

LogAfterException_updated(lg, dom, to_date) == [lg EXCEPT ![dom] = to_date]

\* except Exception: print(...); continue -- the log is not touched.
LogAfterException(lg, dom, to_date) == lg

AfterException_break(i, n) == n + 1

\* continue: the loop goes on with the next domain.
AfterException(i, n) == i + 1

\* Where the run is after the loop position moved to i.
PcAfterLoop(i) == IF i > Len(domains) THEN "report" ELSE "loop"

\* What safe_request may give an index query: nothing ("failed"), a
\* response with an error status ("status"), or a 200 answer with rows.
IndexAnswers == {"failed", "status", "rows"}

OneRowAnswer ==
    <<[fields |-> 5, timestamp |-> 20200010, original |-> "http://a.com/ads.txt", digest |-> "d1"]>>

\* Lines 652-661: "listed" when the primary query, or else the wildcard
\* query, returned observations; "failed" when cdx_query returned [] for
\* both because neither got a 200 answer.
IndexOutcome(primary, wildcard) ==
    IF cdx_query(primary, OneRowAnswer) # << >> THEN "listed"
    ELSE IF cdx_query(wildcard, OneRowAnswer) # << >> THEN "listed"
    ELSE "failed"

InitMain ==
    /\ SigIdle
    /\ ReqIdle
    /\ BsIdle
    /\ AnaIdle
    /\ FtIdle
    /\ ExIdle
    /\ PlIdle
    /\ CdxIdle
    /\ domains \in DomainLists
    /\ stored_log \in [DomainPool -> StoredDates]
    /\ loaded_log = stored_log
    /\ log = stored_log
    /\ all_results = << >>
    /\ today = RunDates[1]
    /\ dom_i = 1
    /\ analyzed = << >>
    /\ report_rows = <<"none">>
    /\ prev_run = NoRun
    /\ mainPc = "loop"

\* One pass of the loop in which analyze_domain returns.
MainAnalyzeReturns ==
    /\ mainPc = "loop"
    /\ LET dom == domains[dom_i]
           from == from_date(log, dom)
       IN  /\ \E primary \in IndexAnswers, wildcard \in IndexAnswers :
                  analyzed' = Append(analyzed, [dom |-> dom, from_date |-> from, outcome |-> "returned",
                                                index |-> IndexOutcome(primary, wildcard)])
           /\ all_results' = Append(all_results, dom)
           /\ log' = LogAfterSuccess(log, dom, today)
    /\ dom_i' = dom_i + 1
    /\ mainPc' = PcAfterLoop(dom_i + 1)
    /\ UNCHANGED <<domains, stored_log, loaded_log, today, report_rows, prev_run>>
    /\ UNCHANGED otherThanMain

\* One pass of the loop in which analyze_domain raises an Exception.
MainAnalyzeRaises ==
    /\ mainPc = "loop"
    /\ LET dom == domains[dom_i]
           from == from_date(log, dom)
       IN  /\ analyzed' = Append(analyzed, [dom |-> dom, from_date |-> from, outcome |-> "raised",
                                         index |-> "n/a"])
           /\ log' = LogAfterException(log, dom, today)
    /\ dom_i' = AfterException(dom_i, Len(domains))
    /\ mainPc' = PcAfterLoop(AfterException(dom_i, Len(domains)))
    /\ UNCHANGED <<domains, stored_log, loaded_log, all_results, today, report_rows, prev_run>>
    /\ UNCHANGED otherThanMain

\* The process ends while a domain is analyzed (an interrupt or a kill is
\* not an Exception): nothing after the loop runs.
MainCrashInDomain ==
    /\ mainPc = "loop"
    /\ analyzed' = Append(analyzed, [dom |-> domains[dom_i], from_date |-> from_date(log, domains[dom_i]),
                                     outcome |-> "crashed", index |-> "n/a"])
    /\ mainPc' = "crashed"
    /\ UNCHANGED <<domains, log, stored_log, loaded_log, all_results, today, dom_i, report_rows, prev_run>>
    /\ UNCHANGED otherThanMain

\* generate_report(all_results, ...) returns.
MainReport ==
    /\ mainPc = "report"
    /\ report_rows' = all_results
    /\ mainPc' = "save"
    /\ UNCHANGED <<domains, log, stored_log, loaded_log, all_results, today, dom_i, analyzed, prev_run>>
    /\ UNCHANGED otherThanMain

\* generate_report raises (it is outside every try): main ends there.
MainReportRaises ==
    /\ mainPc = "report"
    /\ mainPc' = "crashed"
    /\ UNCHANGED <<domains, log, stored_log, loaded_log, all_results, today, dom_i, analyzed,
                   report_rows, prev_run>>
    /\ UNCHANGED otherThanMain

\* save_log(log, args.log_file), the last statement of main.
MainSaveLog ==
    /\ mainPc = "save"
    /\ stored_log' = log
    /\ mainPc' = "done"
    /\ UNCHANGED <<domains, log, loaded_log, all_results, today, dom_i, analyzed, report_rows, prev_run>>
    /\ UNCHANGED otherThanMain

\* A second run of main over the same domains file: load_log reads the file.
MainSecondRun ==
    /\ mainPc \in {"done", "crashed"}
    /\ prev_run = NoRun
    /\ prev_run' = [ended |-> mainPc, completed |-> {all_results[k] : k \in 1..Len(all_results)},
                    today |-> today]
    /\ loaded_log' = stored_log
    /\ log' = stored_log
    /\ all_results' = << >>
    /\ today' = RunDates[2]
    /\ dom_i' = 1
    /\ analyzed' = << >>
    /\ report_rows' = <<"none">>
    /\ mainPc' = "loop"
    /\ UNCHANGED <<domains, stored_log>>
    /\ UNCHANGED otherThanMain

NextMain ==
    \/ MainAnalyzeReturns
    \/ MainAnalyzeRaises
    \/ MainCrashInDomain
    \/ MainReport
    \/ MainReportRaises
    \/ MainSaveLog
    \/ MainSecondRun

SpecMain == InitMain /\ [][NextMain]_vars

AnalyzedDomains == [k \in 1..Len(analyzed) |-> analyzed[k].dom]

Returned(k) == analyzed[k].outcome = "returned"

\* The domains of the calls that returned, in call order.
RECURSIVE CompletedUpTo(_)
CompletedUpTo(k) ==
    IF k = 0 THEN << >>
    ELSE IF Returned(k) THEN Append(CompletedUpTo(k - 1), analyzed[k].dom)
         ELSE CompletedUpTo(k - 1)

SomeRaised == \E k \in 1..Len(analyzed) : analyzed[k].outcome = "raised"

\* C22: an exception raised while a domain is analyzed does not end the
\* batch: the domains are analyzed in list order, every domain of the list
\* has been analyzed when the loop is over, whatever raised, and the report
\* is generated from exactly the domains that completed.
C22_ExceptionDoesNotAbortBatch ==
    /\ mainPc \in {"loop", "report", "save", "done", "crashed"}
           => /\ Len(analyzed) <= Len(domains)
              /\ \A k \in 1..Len(analyzed) : analyzed[k].dom = domains[k]
    /\ mainPc \in {"loop"} => Len(analyzed) = dom_i - 1
    /\ mainPc \in {"report", "save", "done"} => AnalyzedDomains = domains
    /\ mainPc \in {"save", "done"} => report_rows = CompletedUpTo(Len(analyzed))

C22_Witness ==
    /\ mainPc = "done"
    /\ Len(domains) = 3
    /\ analyzed[1].outcome = "raised"
    /\ analyzed[2].outcome = "returned"
    /\ analyzed[3].outcome = "returned"
    /\ report_rows = <<domains[2], domains[3]>>

\* The results are the domains whose call returned, and the entry of a
\* domain without a returned call is the one load_log gave.
OnlyCompletedDomainsRecorded ==
    mainPc \in {"loop", "report", "save", "done", "crashed"}
        => /\ all_results = CompletedUpTo(Len(analyzed))
           /\ \A d \in DomainPool :
                  (\A k \in 1..Len(analyzed) : analyzed[k].dom = d => ~Returned(k))
                      => log[d] = loaded_log[d]

\* C23: a domain whose analysis raises adds no result and leaves the
\* progress log as it was, in memory and on disk: its own entry and every
\* other entry keep their value, and the results hold completed domains only.
C23_RaisingDomainLeavesNoTrace ==
    /\ []OnlyCompletedDomainsRecorded
    /\ [][(Len(analyzed') = Len(analyzed) + 1 /\ analyzed'[Len(analyzed')].outcome = "raised")
             => (all_results' = all_results /\ log' = log /\ stored_log' = stored_log)]_vars

C23_Witness ==
    /\ mainPc = "done"
    /\ SomeRaised
    /\ \E k \in 1..Len(analyzed) :
           /\ analyzed[k].outcome = "raised"
           /\ loaded_log[analyzed[k].dom] # NoEntry
           /\ stored_log[analyzed[k].dom] = loaded_log[analyzed[k].dom]
           /\ \A j \in 1..Len(analyzed) : analyzed[j].dom = analyzed[k].dom => ~Returned(j)
    /\ Len(all_results) >= 1

\* C24: the progress log is stored after each domain completes: whenever a
\* domain's analysis has returned, the log file already holds its entry
\* with the run's end date, before the next domain starts and whatever
\* happens afterwards.
C24_LogStoredAfterEachDomain ==
    mainPc \in {"loop", "report", "save", "done", "crashed"}
        => \A k \in 1..Len(analyzed) : Returned(k) => stored_log[analyzed[k].dom] = today

\* What main does: the file is written by its last statement only, so it
\* holds what load_log read until the run has ended without a crash.
LogStoredOnlyAtEnd ==
    mainPc \in {"loop", "report", "save", "crashed"} => stored_log = loaded_log

C24_Witness ==
    /\ mainPc = "crashed"
    /\ Len(all_results) = 2
    /\ \A k \in 1..2 : stored_log[all_results[k]] # today

\* The start date the k-th call of the run should get: the date an earlier
\* call of the run wrote for the domain, else the loaded entry, else the
\* default start date.
ExpectedFrom(k) ==
    LET d == analyzed[k].dom
    IN  IF \E j \in 1..(k - 1) : analyzed[j].dom = d /\ Returned(j) THEN today
        ELSE IF loaded_log[d] # NoEntry THEN loaded_log[d]
        ELSE START_DATE

\* C30: a domain is analyzed from its entry's last_checked when the log has
\* an entry for it and from the default start date otherwise; once its
\* analysis has returned its entry holds the run's end date, the log file
\* holds it when the run has ended, and the next run starts from that date.
C30_ResumeFromLastChecked ==
    mainPc \in {"loop", "report", "save", "done", "crashed"}
        => /\ \A k \in 1..Len(analyzed) :
                  /\ analyzed[k].from_date = ExpectedFrom(k)
                  /\ Returned(k) => log[analyzed[k].dom] = today
                  /\ (Returned(k) /\ mainPc = "done") => stored_log[analyzed[k].dom] = today
           /\ prev_run.ended = "done"
                  => \A d \in prev_run.completed : loaded_log[d] = prev_run.today

C30_Witness ==
    /\ prev_run.ended = "done"
    /\ Len(analyzed) >= 2
    /\ analyzed[1].dom \in prev_run.completed
    /\ analyzed[1].from_date = RunDates[1]
    /\ analyzed[2].dom \notin prev_run.completed
    /\ analyzed[2].from_date = START_DATE

\* ------------------------------------------------------------------
\* The outbound requests of a run, in order, and the politeness sleeps
\* (sleep_random, time.sleep(SLEEP_MIN)) between them.  One call of
\* safe_request counts as one outbound request: its retries and their
\* backoff sleeps are inside it.
\* ------------------------------------------------------------------
MaxPoliteDomains == 3

MaxRows == 2

NoGap == -1

UseWildcard_always(rows) == TRUE

\* 'if not snaps:' after the primary query (line 656).
UseWildcard(rows) == rows = 0

\* The politeness sleeps that follow the wildcard query before anything
\* else is requested: there is no sleep call between lines 658 and 661.
SleepAfterWildcard == 0

\* An outbound request of the given kind, followed at once by 'after'
\* politeness sleeps.
RequestIssued(kind, after) ==
    /\ plLastGap' = IF plLastPair[2] = "none" THEN NoGap ELSE plSleeps
    /\ plLastPair' = <<plLastPair[2], kind>>
    /\ plSleeps' = after

\* main's 'continue' or the end of a pass: the loop goes to the next domain.
NextDomain ==
    /\ plDomain' = plDomain + 1
    /\ plPc' = IF plDomain + 1 > MaxPoliteDomains THEN "done" ELSE "primary"

InitPolite ==
    /\ SigIdle
    /\ ReqIdle
    /\ BsIdle
    /\ AnaIdle
    /\ FtIdle
    /\ ExIdle
    /\ MainIdle
    /\ CdxIdle
    /\ plDomain = 1
    /\ plPc = "primary"
    /\ used_subdomain_mode = FALSE
    /\ plRows = 0
    /\ plToFetch = 0
    /\ plCalls = NoCalls
    /\ plSleeps = 0
    /\ plLastGap = NoGap
    /\ plLastPair = <<"none", "none">>
    /\ plResult = NoResult

\* Lines 652-655: the primary query for <domain>/ads.txt and sleep_random().
PlPrimaryQuery ==
    /\ plPc = "primary"
    /\ \E rows \in 0..MaxRows :
          /\ plRows' = rows
          /\ plPc' = IF UseWildcard(rows) THEN "wildcard" ELSE "fetch"
          /\ plToFetch' = rows
          /\ plCalls' = [NoCalls EXCEPT !.primary = 1, !.primary_rows = rows]
    /\ RequestIssued("primary", 1)
    /\ used_subdomain_mode' = FALSE
    /\ plResult' = NoResult
    /\ UNCHANGED plDomain
    /\ UNCHANGED otherThanPl

\* Lines 656-661: the wildcard query; with nothing listed again,
\* analyze_domain returns the initial results.
PlWildcardQuery ==
    /\ plPc = "wildcard"
    /\ \E rows \in 0..MaxRows :
          /\ plRows' = rows
          /\ plToFetch' = rows
          /\ IF rows = 0
             THEN /\ plPc' = "return"
                  /\ plResult' = [returned |-> "line 661", events |-> << >>, fetched |-> plCalls.fetch]
             ELSE /\ plPc' = "fetch"
                  /\ plResult' = plResult
    /\ RequestIssued("wildcard", SleepAfterWildcard)
    /\ used_subdomain_mode' = TRUE
    /\ plCalls' = [plCalls EXCEPT !.wildcard = @ + 1]
    /\ UNCHANGED plDomain
    /\ UNCHANGED otherThanPl

\* Lines 700-723, a cache miss: wayback_fetch and time.sleep(SLEEP_MIN).
PlFetch ==
    /\ plPc = "fetch"
    /\ plToFetch > 0
    /\ RequestIssued("fetch", 1)
    /\ plToFetch' = plToFetch - 1
    /\ plCalls' = [plCalls EXCEPT !.fetch = @ + 1]
    /\ UNCHANGED <<plDomain, plPc, used_subdomain_mode, plRows, plResult>>
    /\ UNCHANGED otherThanPl

\* Every key is cached: the rest of analyze_domain requests nothing and
\* returns results at line 915, with the events it found.
PlAnalysisReturns ==
    /\ plPc = "fetch"
    /\ plToFetch = 0
    /\ \E ev \in {<< >>, <<"added">>} :
          plResult' = [returned |-> "line 915", events |-> ev, fetched |-> plCalls.fetch]
    /\ plPc' = "return"
    /\ UNCHANGED <<plDomain, used_subdomain_mode, plRows, plToFetch, plCalls, plSleeps,
                   plLastGap, plLastPair>>
    /\ UNCHANGED otherThanPl

\* analyze_domain raises after its queries: main's except branch prints
\* and continues (lines 1019-1021), without a sleep.
PlAnalysisRaises ==
    /\ plPc = "fetch"
    /\ NextDomain
    /\ UNCHANGED <<used_subdomain_mode, plRows, plToFetch, plCalls, plSleeps, plLastGap,
                   plLastPair, plResult>>
    /\ UNCHANGED otherThanPl

\* Lines 1015-1018: the result is kept, the log updated, time.sleep(SLEEP_MIN).
PlDomainReturns ==
    /\ plPc = "return"
    /\ plSleeps' = plSleeps + 1
    /\ NextDomain
    /\ UNCHANGED <<used_subdomain_mode, plRows, plToFetch, plCalls, plLastGap, plLastPair,
                   plResult>>
    /\ UNCHANGED otherThanPl

NextPolite ==
    \/ PlPrimaryQuery
    \/ PlWildcardQuery
    \/ PlFetch
    \/ PlAnalysisReturns
    \/ PlAnalysisRaises
    \/ PlDomainReturns

SpecPolite == InitPolite /\ [][NextPolite]_vars

\* C25: between any two consecutive outbound requests of a run (index
\* queries and content fetches) at least one politeness sleep is executed.
C25_SleepBetweenRequests ==
    plPc \in {"primary", "wildcard", "fetch", "return", "done"}
        => (plLastGap = NoGap \/ plLastGap >= 1)

\* What the code gives: every pair of consecutive requests without a sleep
\* between them begins with a wildcard query.
OnlyWildcardIsNotFollowedBySleep ==
    (plPc \in {"primary", "wildcard", "fetch", "return", "done"} /\ plLastGap = 0)
        => plLastPair[1] = "wildcard"

C25_Witness ==
    /\ plLastPair = <<"wildcard", "fetch">>
    /\ plLastGap = 0

\* C28: the wildcard query is issued exactly when the primary query listed
\* nothing, and at most once for a domain; when it lists nothing either,
\* analyze_domain returns a result without events and has fetched no content.
C28_WildcardOnlyAfterEmptyPrimary ==
    plPc \in {"wildcard", "fetch", "return"}
        => /\ plCalls.primary = 1
           /\ plCalls.wildcard <= 1
           /\ plPc = "wildcard" => (plCalls.primary_rows = 0 /\ plCalls.wildcard = 0)
           /\ plPc \in {"fetch", "return"}
                 => /\ plCalls.wildcard = 1 <=> plCalls.primary_rows = 0
                    /\ used_subdomain_mode <=> plCalls.wildcard = 1
           /\ (plPc = "return" /\ plRows = 0)
                 => /\ plCalls.wildcard = 1
                    /\ plResult.returned = "line 661"
                    /\ plResult.events = << >>
                    /\ plCalls.fetch = 0
           /\ (plPc = "return" /\ plRows > 0) => plResult.returned = "line 915"

C28_Witness ==
    /\ plPc = "return"
    /\ plRows = 0
    /\ plCalls = [primary |-> 1, primary_rows |-> 0, wildcard |-> 1, fetch |-> 0]
    /\ plResult.events = << >>

\* ------------------------------------------------------------------
\* cdx_query on one answer of the index, and the reduction of its list
\* (lines 685-687).
\* ------------------------------------------------------------------
MaxCdxRows == 3

\* Two captures of one day and one of the next day.
CdxTimestamps == {20200010, 20200011, 20200020}

CdxDigests == {"d1", "d2"}

CdxOriginals == {"http://a.com/ads.txt", "https://a.com/ads.txt"}

\* A row of the answer: short rows have fewer than five fields.
CdxRowPool ==
    [fields : {5}, timestamp : CdxTimestamps, original : CdxOriginals, digest : CdxDigests]
        \cup {[fields |-> 4, timestamp |-> 20200010, original |-> "http://a.com/ads.txt", digest |-> "d1"]}

CdxKinds == {"failed", "status", "nonjson", "short", "rows"}

\* The thresholds the length of the list is compared with: the lists of the
\* model cannot exceed MAX_SNAPSHOT_FETCH, so the comparison of line 686 is
\* exercised with thresholds they can exceed as well.
ReduceCaps == {1, 2, MAX_SNAPSHOT_FETCH}

\* Lines 685-687.
SnapsReduced(list, cap) ==
    IF Len(list) > cap THEN reduce_snapshots_to_daily(list) ELSE list

InitCdx ==
    /\ SigIdle
    /\ ReqIdle
    /\ BsIdle
    /\ AnaIdle
    /\ FtIdle
    /\ ExIdle
    /\ MainIdle
    /\ PlIdle
    /\ cdxKind \in CdxKinds
    /\ \E n \in 0..MaxCdxRows :
          cdxRows \in IF cdxKind = "rows" THEN [1..n -> CdxRowPool] ELSE {<< >>}
    /\ cdxCap \in ReduceCaps
    /\ cdxSnaps = << >>
    /\ cdxReduced = << >>
    /\ cdxPc = "query"

\* snaps = cdx_query(...)
CdxQuery ==
    /\ cdxPc = "query"
    /\ cdxSnaps' = cdx_query(cdxKind, cdxRows)
    /\ cdxPc' = "reduce"
    /\ UNCHANGED <<cdxKind, cdxRows, cdxCap, cdxReduced>>
    /\ UNCHANGED otherThanCdx

\* snaps_reduced = snaps, or its daily reduction when it is too long.
CdxReduce ==
    /\ cdxPc = "reduce"
    /\ cdxReduced' = SnapsReduced(cdxSnaps, cdxCap)
    /\ cdxPc' = "done"
    /\ UNCHANGED <<cdxKind, cdxRows, cdxCap, cdxSnaps>>
    /\ UNCHANGED otherThanCdx

NextCdx == CdxQuery \/ CdxReduce

SpecCdx == InitCdx /\ [][NextCdx]_vars

\* C26: the list cdx_query returns holds no two entries with the same
\* timestamp and digest.
C26_NoDuplicateObservations ==
    cdxPc \in {"reduce", "done"}
        => \A i, j \in 1..Len(cdxSnaps) :
              (i # j) => <<cdxSnaps[i].timestamp, cdxSnaps[i].digest>>
                             # <<cdxSnaps[j].timestamp, cdxSnaps[j].digest>>

\* What cdx_query gives: one Snapshot for every row of five fields.
OneSnapshotPerRow ==
    cdxPc \in {"reduce", "done"}
        => Len(cdxSnaps) = Cardinality({k \in 1..Len(cdxRows) : cdxRows[k].fields >= 5})

C26_Witness ==
    /\ cdxPc = "done"
    /\ Len(cdxSnaps) = 2
    /\ cdxSnaps[1].timestamp = cdxSnaps[2].timestamp
    /\ cdxSnaps[1].digest = cdxSnaps[2].digest
    /\ cdxSnaps[1].original # cdxSnaps[2].original

\* C27: a list longer than the threshold is reduced to at most one
\* observation per calendar day, an observation with the day's latest
\* timestamp, so the last observation of the list is kept; a list within
\* the threshold is left as it is.
C27_DailyReduction ==
    cdxPc = "done"
        => IF Len(cdxSnaps) > cdxCap
           THEN /\ \A i, j \in 1..Len(cdxReduced) :
                      (i # j) => DayOf(cdxReduced[i].timestamp) # DayOf(cdxReduced[j].timestamp)
                /\ \A i \in 1..Len(cdxReduced) :
                      /\ \E k \in 1..Len(cdxSnaps) : cdxSnaps[k] = cdxReduced[i]
                      /\ \A k \in 1..Len(cdxSnaps) :
                            DayOf(cdxSnaps[k].timestamp) = DayOf(cdxReduced[i].timestamp)
                                => cdxSnaps[k].timestamp <= cdxReduced[i].timestamp
                /\ \A k \in 1..Len(cdxSnaps) :
                      \E i \in 1..Len(cdxReduced) :
                          DayOf(cdxReduced[i].timestamp) = DayOf(cdxSnaps[k].timestamp)
                /\ Last(cdxReduced) = Last(cdxSnaps)
           ELSE cdxReduced = cdxSnaps

C27_Witness ==
    /\ cdxPc = "done"
    /\ cdxCap = 2
    /\ Len(cdxSnaps) = 3
    /\ Len(cdxReduced) = 2
    /\ cdxSnaps[1].timestamp < cdxSnaps[2].timestamp
    /\ DayOf(cdxSnaps[1].timestamp) = DayOf(cdxSnaps[2].timestamp)
    /\ cdxReduced = <<cdxSnaps[2], cdxSnaps[3]>>

\* One sentence per event, in order, or the one default sentence.
SummaryMatchesEvents ==
    IF events = << >>
    THEN human_summary = <<NoChangeSentence>>
    ELSE /\ Len(human_summary) = Len(events)
         /\ \A k \in 1..Len(events) :
               /\ human_summary[k].ssp = events[k].ssp
               /\ human_summary[k].window_from = events[k].window_from
               /\ human_summary[k].window_to = events[k].window_to
               /\ human_summary[k].kind # NoChangeSentence.kind

\* C29: the summary of every result holds exactly one sentence per event,
\* and exactly one 'no changes detected' sentence when there is no event,
\* also when no observation was found.
C29_SummaryMatchesEvents == anaPc = "done" => SummaryMatchesEvents

\* What the code gives: the summary matches the events of every result
\* that had observations.
SummaryMatchesEventsWhenObserved ==
    (anaPc = "done" /\ snaps # << >>) => SummaryMatchesEvents

C29_Witness ==
    /\ anaPc = "done"
    /\ snaps = << >>
    /\ events = << >>
    /\ human_summary = << >>

\* C31: consecutive observations that share a content digest are collapsed
\* into one entry of the working list: no two neighbours of the list have
\* the same digest.
C31_SameDigestRunsCollapsed ==
    cdxPc = "done"
        => \A i \in 1..(Len(cdxReduced) - 1) : cdxReduced[i].digest # cdxReduced[i + 1].digest

\* What the code gives below the threshold: the working list is the list of
\* the index, whatever its digests.
WorkingListIsIndexList ==
    (cdxPc = "done" /\ Len(cdxSnaps) <= cdxCap) => cdxReduced = cdxSnaps

C31_Witness ==
    /\ cdxPc = "done"
    /\ cdxCap = MAX_SNAPSHOT_FETCH
    /\ Len(cdxReduced) = 2
    /\ cdxReduced[1].digest = cdxReduced[2].digest
    /\ DayOf(cdxReduced[1].timestamp) < DayOf(cdxReduced[2].timestamp)

\* The bracket of a call that went past line 604 lies within the indices it
\* was given, and the iterations are within the bound.
BracketWithinCall ==
    (bsPc = "loop" \/ (bsPc = "returned" /\ bsResult.found))
        => /\ bsLeft <= bs.lo /\ bs.lo < bs.hi /\ bs.hi <= bsRight
           /\ bs.iteration <= bs.max_iterations
           /\ bs.max_iterations <= MAX_ITERATIONS
           /\ bsPc = "returned" => (bsResult.lo = bs.lo /\ bsResult.hi = bs.hi)

\* C32: binary_search_change always terminates: every iteration makes
\* hi - lo strictly smaller, the loop body runs at most max_iterations
\* times, and the call returns a bracket (lo, hi) with
\* left_idx <= lo < hi <= right_idx when it stops on the bound or on
\* unknown signatures.
C32_BisectionTerminates ==
    /\ []BracketWithinCall
    /\ [][(bsPc = "loop" /\ bsPc' = "loop")
             => /\ bs'.hi - bs'.lo < bs.hi - bs.lo
                /\ bs'.iteration = bs.iteration + 1]_vars
    /\ <>(bsPc = "returned")

\* A call stopped by the bound, with a bracket still wider than one step.
C32_Witness ==
    /\ bsPc = "returned"
    /\ bsResult.found
    /\ bs.max_iterations = 1
    /\ bs.iteration = 1
    /\ bsResult.hi - bsResult.lo > 1
    /\ \E i \in DOMAIN bsObs : ~BsGetSig[i].known

BsMid == (bs.lo + bs.hi) \div 2

\* A position a probe may settle on: strictly inside the bracket, with a
\* known signature.
BsUsableProbe(m) == m > bs.lo /\ m < bs.hi /\ BsGetSig[m].known

\* The probe the claim names: the first usable one of mid-1, mid+1, mid-2,
\* mid+2; -1 when none is usable.
BsExpectedProbe ==
    IF BsUsableProbe(BsMid - 1) THEN BsMid - 1
    ELSE IF BsUsableProbe(BsMid + 1) THEN BsMid + 1
    ELSE IF BsUsableProbe(BsMid - 2) THEN BsMid - 2
    ELSE IF BsUsableProbe(BsMid + 2) THEN BsMid + 2
    ELSE -1

\* C33: with an unknown midpoint signature the iteration goes on from the
\* first of mid-1, mid+1, mid-2, mid+2 that lies strictly between lo and hi
\* and has a known signature; when there is none the call returns the
\* bracket (lo, hi) as it stands.
C33_ProbesAroundUnknownMidpoint ==
    [][(bsPc = "loop" /\ LoopCondition(bs) /\ ~BsGetSig[BsMid].known)
          => IF BsExpectedProbe = -1
             THEN /\ bsPc' = "returned"
                  /\ bsResult' = [found |-> TRUE, lo |-> bs.lo, hi |-> bs.hi]
             ELSE /\ bsPc' = "loop"
                  /\ \/ (bs'.lo = BsExpectedProbe /\ bs'.hi = bs.hi)
                     \/ (bs'.hi = BsExpectedProbe /\ bs'.lo = bs.lo)
                  /\ bs'.iteration = bs.iteration + 1]_vars

\* A call that settled on the probe mid+1 (mid and mid-1 unknown) and one
\* iteration later is returned.
C33_Witness ==
    /\ bsPc = "returned"
    /\ bsResult.found
    /\ bs.iteration = 1
    /\ bsRight - bsLeft >= 4
    /\ LET mid == (bsLeft + bsRight) \div 2
       IN  /\ ~BsGetSig[mid].known
           /\ ~BsGetSig[mid - 1].known
           /\ BsGetSig[mid + 1].known
           /\ (bs.lo = mid + 1 \/ bs.hi = mid + 1)

\* C34: at every iteration of binary_search_change and on its return,
\* signatures_equal of the signatures at lo and at hi is false, whatever
\* signatures are known or unknown.
C34_BracketHoldsDifference ==
    (bsPc = "loop" \/ (bsPc = "returned" /\ bsResult.found))
        => /\ ~signatures_equal(BsGetSig[bs.lo], BsGetSig[bs.hi], TRUE)
           /\ bs.sigL = BsGetSig[bs.lo]
           /\ bs.sigR = BsGetSig[bs.hi]

\* A returned bracket narrowed on both sides, with an unknown signature in
\* the list.
C34_Witness ==
    /\ bsPc = "returned"
    /\ bsResult.found
    /\ bsResult.lo > bsLeft
    /\ bsResult.hi < bsRight
    /\ \E i \in DOMAIN bsObs : ~BsGetSig[i].known
    /\ ~signatures_equal(BsGetSig[bsResult.lo], BsGetSig[bsResult.hi], TRUE)

\* C35: no added or removed event is emitted for a bracket in which the
\* signature of either end is unknown.
C35_NoEventFromUnknownSignature ==
    \A e \in EventSet :
        e.type \in {"added", "removed"}
            => (AnaGetSig[e.index_lo].known /\ AnaGetSig[e.index_hi].known)

\* What the code gives: at an unknown end every provider counts as absent,
\* so the events of such a bracket are exactly the providers of the other end.
UnknownEndCountsAsNoProvider ==
    \A b \in Brackets :
        (AnaGetSig[b[1]].known /\ ~AnaGetSig[b[2]].known)
            => \A ssp \in SSPs :
                  /\ HasAds(AnaGetSig[b[1]], ssp) => \E k \in EventsAt(ssp, b[1], b[2]) : events[k].type = "removed"
                  /\ ~HasAds(AnaGetSig[b[1]], ssp) => EventsAt(ssp, b[1], b[2]) = {}

\* Two observations, the second one's fetch failed: its providers are all
\* reported removed.
C35_Witness ==
    /\ anaPc = "done"
    /\ Len(snaps_reduced) = 2
    /\ AnaGetSig[0].known
    /\ ~AnaGetSig[1].known
    /\ Len(events) = 2
    /\ \A k \in 1..2 : events[k].type = "removed" /\ events[k].index_lo = 0 /\ events[k].index_hi = 1

\* C36: every delay slept between two attempts of one safe_request call is
\* at most BACKOFF_MAX, whether it is the computed backoff or the value of a
\* Retry-After header.
C36_SleepWithinBackoffMax ==
    (reqPc \in {"loop", "returned"} /\ sleepCount > 0) => lastSleep <= BACKOFF_MAX

\* What the code gives: a sleep above BACKOFF_MAX is the value of the
\* Retry-After header of the latest response, taken as it is.
OnlyRetryAfterExceedsBackoffMax ==
    (reqPc = "loop" /\ sleepCount > 0 /\ lastSleep > BACKOFF_MAX)
        => (SleptAfterRetryable /\ UsableRetryAfter /\ lastSleep = RetryAfterWait)

\* The first response is retryable and asks for 120 seconds: the sleep
\* before the second attempt is 120 seconds.
C36_Witness ==
    /\ reqPc = "loop"
    /\ requests = 1
    /\ sleepCount = 1
    /\ lastHeader.kind = "seconds"
    /\ lastSleep = 2 * BACKOFF_MAX

\* C37: a domain's last_checked is advanced only when an index query of its
\* analysis succeeded: the entry of a domain whose index queries all failed
\* is the one the run loaded.
C37_LogAdvancedOnlyAfterIndexSuccess ==
    mainPc \in {"loop", "report", "save", "done", "crashed"}
        => \A d \in DomainPool :
              (\A k \in 1..Len(analyzed) :
                    analyzed[k].dom = d => ~(Returned(k) /\ analyzed[k].index = "listed"))
                  => log[d] = loaded_log[d]

\* What the code gives: every call that returned advanced the entry,
\* whatever the index queries gave.
LogAdvancedAfterEveryReturn ==
    mainPc \in {"loop", "report", "save", "done", "crashed"}
        => \A k \in 1..Len(analyzed) : Returned(k) => log[analyzed[k].dom] = today

\* A run of one domain whose index queries failed has ended: the stored
\* entry is the run's date.
C37_Witness ==
    /\ mainPc = "done"
    /\ prev_run = NoRun
    /\ Len(analyzed) = 1
    /\ analyzed[1].index = "failed"
    /\ loaded_log[analyzed[1].dom] = 20250601
    /\ stored_log[analyzed[1].dom] = today

\* The participant IDs seen for a provider over both observations, in
\* either role.
IdsSeen(ssp) ==
    UNION {ListedIds(sig, ssp, role) : sig \in {sigA, sigB}, role \in {"direct", "reseller"}}

\* C38: in every rollup row total_unique_ids is the number of distinct
\* participant IDs seen for the provider over all observations and both
\* roles.
C38_TotalCountsDistinctIds ==
    sigPc = "rows"
        => \A ssp \in SSPs : ssp_id_rows[ssp].total_unique_ids = Cardinality(IdsSeen(ssp))

\* What the code gives: the total is the sum of the two per-role counts.
TotalIsSumOfRoleCounts ==
    sigPc = "rows"
        => \A ssp \in SSPs :
              ssp_id_rows[ssp].total_unique_ids
                  = ssp_id_rows[ssp].ids_direct_count + ssp_id_rows[ssp].ids_reseller_count

\* One ID is listed for google as DIRECT and as RESELLER: the row counts 2.
C38_Witness ==
    /\ sigPc = "rows"
    /\ IdsSeen("google") = {"pub-1"}
    /\ ssp_id_rows["google"].ids_direct_list = {"pub-1"}
    /\ ssp_id_rows["google"].ids_reseller_list = {"pub-1"}
    /\ ssp_id_rows["google"].total_unique_ids = 2

\* C13: once the sampled indices of a non-empty reduced list are computed they contain
\* index 0 and index n-1 of that list.
C13_EndpointsSampled ==
    (anaPc # "sample" /\ snaps_reduced # << >>) =>
        /\ 0 \in Range(sampled_indices)
        /\ Len(snaps_reduced) - 1 \in Range(sampled_indices)

\* What holds of the endpoints: the last index is always sampled, and so is the last
\* index carrying the first observation's timestamp.
EndpointsSampledByTimestamp ==
    (anaPc # "sample" /\ snaps_reduced # << >>) =>
        /\ Len(snaps_reduced) - 1 \in Range(sampled_indices)
        /\ \E i \in Range(sampled_indices) :
              /\ snaps_reduced[i + 1].timestamp = snaps_reduced[1].timestamp
              /\ \A j \in 1..Len(snaps_reduced) :
                    snaps_reduced[j].timestamp = snaps_reduced[1].timestamp => j - 1 <= i

====
